---------------------------- MODULE Spec2Model ----------------------------
(***************************************************************************)
(* A model of the FizixLab simulation pipeline (World, CollisionPipeline,   *)
(* CollisionSolver, Rigidbody and the Ball/Box/Trigger/Canon shapes).       *)
(*                                                                         *)
(* Numbers.  The program computes in 32-bit floats.  The model computes in  *)
(* fixed point: a length of p pixels is the integer p * Scale, a velocity   *)
(* of v pixels/second is v * Scale, a pure factor (restitution, friction,   *)
(* a unit vector component) f is f * Scale.  Products and quotients are     *)
(* rounded to the nearest unit (MulDiv), square roots are rounded down.     *)
(* Times are kept in 1/100 ms (deltaMs = 16.67 is the integer 1667).        *)
(* Body indices are 1-based (objects[1] is the program's objects[0]).       *)
(***************************************************************************)
EXTENDS Integers, Sequences, FiniteSets, TLC

VARIABLES
    objects,        \* World::objects, the body list, in order
    pairs,          \* CollisionPipeline::pairs
    recording,      \* Settings::recording
    selectedBody,   \* the host's selectedBody handle (a body id, or 0 for nullptr)
    draggedBody,    \* the host's draggedBody handle (a body id, or 0 for nullptr)
    pc,             \* where World::Update stands ("idle" between calls)
    deltaMs,        \* Update's deltaMs argument, in 1/100 ms
    requested,      \* Update's iterations argument as the caller passed it
    iterations,     \* Update's iterations after ComputeAdaptiveIterations
    currIteration,  \* the sub-step loop counter of Update
    pairIdx,        \* position of the pair loop of Update in pairs (1-based)
    prevPositions,  \* Update's prevPositions vector
    integratedPositions, \* Update's integratedPositions vector
    snap,           \* the snapshot last captured by CaptureSnapshot
    bodyIdx,        \* position of Update's loops over the bodies (1-based)
    paused,         \* Settings::paused
    rewinding,      \* Settings::rewinding
    scrubIndex,     \* Settings::scrubIndex (0-based, -1 when not scrubbing)
    timeScale,      \* Settings::timeScale, a factor (1.0 is Scale)
    stepOneFrame,   \* Settings::stepOneFrame
    recordInterval, \* Settings::recordInterval
    recordFrameCounter, \* Engine::recordFrameCounter
    spawnNudgeFrames,   \* Engine::spawnNudgeFrames
    history,        \* Recorder::history, the snapshots recorded, oldest first
    aux             \* observations kept for the properties (never read by the program)

\* the time-control state of Engine, Settings and Recorder
timeVars == <<rewinding, scrubIndex, timeScale, stepOneFrame, recordInterval,
              recordFrameCounter, spawnNudgeFrames, history>>

vars == <<objects, pairs, recording, selectedBody, draggedBody, pc, deltaMs,
          requested, iterations, currIteration, pairIdx, prevPositions,
          integratedPositions, snap, bodyIdx, paused, timeVars, aux>>

-----------------------------------------------------------------------------
(* Fixed-point arithmetic *)

\* the element of a one-element set: Only({e : x \in {v}}) is e with x standing for
\* the value of v, which is computed once
Only(S) == CHOOSE r \in S : TRUE

Scale == 100

Abs(x) == IF x < 0 THEN -x ELSE x

Sgn(x) == IF x < 0 THEN -1 ELSE IF x > 0 THEN 1 ELSE 0

Min2(a, b) == IF a < b THEN a ELSE b

Max2(a, b) == IF a > b THEN a ELSE b

\* n / d rounded to the nearest integer, for n >= 0, d > 0
RoundDiv(n, d) == (2 * n + d) \div (2 * d)

\* from h = <<floor(a * (b \div 2) / c), (a * (b \div 2)) % c>> to the same
\* pair for b
Doubled(h, a, b, c) ==
    LET c2 == IF 2 * h[2] >= c THEN 1 ELSE 0
        q2 == 2 * h[1] + c2
        r2 == 2 * h[2] - c2 * c
        r3 == r2 + (a % c)
        c3 == IF r3 >= c THEN 1 ELSE 0
    IN IF b % 2 = 0 THEN <<q2, r2>>
       ELSE <<q2 + (a \div c) + c3, r3 - c3 * c>>

\* <<floor(a * b / c), (a * b) % c>> for a, b >= 0 and 0 < c < 2^30, by
\* doubling, so that no intermediate value leaves 32 bits (the pair for
\* b \div 2 is computed once and then doubled)
RECURSIVE MulDivQR(_, _, _)
MulDivQR(a, b, c) ==
    IF b = 0 THEN <<0, 0>>
    ELSE CHOOSE res \in {Doubled(h, a, b, c) : h \in {MulDivQR(a, b \div 2, c)}} : TRUE

\* a * b / c rounded to nearest, computed without leaving 32 bits
MulDiv(a, b, c) ==
    LET Nearest(w, C) == w[1] + (IF 2 * w[2] >= C THEN 1 ELSE 0)
        Of(s, A, B, C) ==
            IF B = 0 \/ A % C <= 500000000 \div B
            THEN s * ((A \div C) * B + RoundDiv((A % C) * B, C))
            ELSE s * ((A \div C) * B + Nearest(MulDivQR(A % C, B, C), C))
    IN Of(Sgn(a) * Sgn(b) * Sgn(c), Abs(a), Abs(b), Abs(c))

\* float * float and float / float of two fixed-point numbers
FMul(a, b) == MulDiv(a, b, Scale)

FDiv(a, b) == MulDiv(a, Scale, b)

RECURSIVE SqrtIter(_, _, _)
SqrtIter(n, lo, hi) ==
    IF lo >= hi THEN lo
    ELSE LET mid == (lo + hi + 1) \div 2
         IN IF mid * mid <= n THEN SqrtIter(n, mid, hi)
            ELSE SqrtIter(n, lo, mid - 1)

\* std::sqrt on a non-negative integer, rounded down
ISqrt(n) == SqrtIter(n, 0, Min2(n, 46340))

\* the largest magnitude whose square (summed over two axes) stays in 32 bits
SqLim == 32767

-----------------------------------------------------------------------------
(* math::Vec2 *)

Vec(x, y) == [x |-> x, y |-> y]

VZero == Vec(0, 0)

VAdd(a, b) == Vec(a.x + b.x, a.y + b.y)

VSub(a, b) == Vec(a.x - b.x, a.y - b.y)

VNeg(a) == Vec(-a.x, -a.y)

\* Vec2 * float, the factor a fixed-point number
VScale(a, f) == Vec(FMul(a.x, f), FMul(a.y, f))

\* Vec2 / float
VDivide(a, f) == Vec(FDiv(a.x, f), FDiv(a.y, f))

\* Vec2::Length: sqrt(x*x + y*y), the squares scaled down when they would
\* leave 32 bits (a float keeps its relative precision in the same way)
Length(v) ==
    LET Root(ax, ay, k) == k * ISqrt((ax \div k) * (ax \div k) + (ay \div k) * (ay \div k))
        Of(ax, ay) == IF ax = 0 THEN ay
                      ELSE IF ay = 0 THEN ax
                      ELSE Root(ax, ay, (Max2(ax, ay) \div SqLim) + 1)
    IN Of(Abs(v.x), Abs(v.y))

Normalize(v) ==
    LET Over(len) == IF len = 0 THEN VZero ELSE Vec(FDiv(v.x, len), FDiv(v.y, len))
    IN Over(Length(v))

Dot(a, b) == FMul(a.x, b.x) + FMul(a.y, b.y)

Cross(a, b) == FMul(a.x, b.y) - FMul(a.y, b.x)

\* Vec2::DistanceSquared, in squared units; a square that would leave 32 bits
\* saturates (it is only ever compared with smaller squares)
SqSat == 2147483647

DistanceSquared(a, b) ==
    LET dx == Abs(a.x - b.x)
        dy == Abs(a.y - b.y)
    IN IF dx > SqLim \/ dy > SqLim THEN SqSat ELSE dx * dx + dy * dy

-----------------------------------------------------------------------------
(* collision::AABB and the bodies *)

AABB(minX, minY, maxX, maxY) == [min |-> Vec(minX, minY), max |-> Vec(maxX, maxY)]

\* Rigidbody::Rigidbody with the shape constructors: the fields of a body.
\* kind is the dynamic type (what dynamic_cast tells apart); id stands for the
\* address of the object, which is what the host's handles hold.
Rigidbody(id, kind, bodyType, pos, vel, radius, width, height, restitution) ==
    [id |-> id, kind |-> kind, bodyType |-> bodyType,
     pos |-> pos, linearVel |-> vel, linearAcc |-> VZero,
     rotation |-> 0, angularVel |-> 0,
     radius |-> radius, width |-> width, height |-> height,
     restitution |-> restitution,
     mass |-> Scale, staticFriction |-> 0, kineticFriction |-> Scale \div 10,
     normalImpulseAccum |-> VZero, frictionImpulseAccum |-> VZero,
     normalForce |-> VZero, frictionForce |-> VZero,
     isColliding |-> FALSE, wasCollidingLastFrame |-> FALSE, action |-> "DoNothing",
     aabb |-> AABB(0, 0, 0, 0), aabbUpdateRequired |-> TRUE]

\* mass = (RigidbodyMass > 0.0f) ? RigidbodyMass : 1.0f
ConstructedMass(RigidbodyMass) == IF RigidbodyMass > 0 THEN RigidbodyMass ELSE Scale

\* Box::Box / Trigger::Trigger: the four local vertices, rotation 0
BoxVertices(b) ==
    LET hw == b.width \div 2
        hh == b.height \div 2
    IN << Vec(-hw, -hh), Vec(hw, -hh), Vec(hw, hh), Vec(-hw, hh) >>

\* Canon::GenerateVertices at barrel angle 0: the extreme points of the wheel
\* (radius 50) and of the barrel (length 80, width 30)
CanonVertices(b) ==
    << Vec(-50 * Scale, -50 * Scale), Vec(80 * Scale, -50 * Scale),
       Vec(80 * Scale, 50 * Scale), Vec(-50 * Scale, 50 * Scale) >>

\* Incline::Incline: a Static body of mass 1 and restitution 0 with its base
\* (carried in width), its height, its flip and its friction coefficients
Incline(id, pos, base, height, flip, staticFrictionValue, kineticFrictionValue) ==
    [Rigidbody(id, "Incline", "Static", pos, VZero, 0, base, height, 0)
        EXCEPT !.staticFriction = staticFrictionValue,
               !.kineticFriction = kineticFrictionValue]
        @@ [flip |-> flip]

\* Incline::UpdateVertices: the triangle anchored at its base (y = 0 of the
\* local frame), apex over the right end when flipped, else over the left
InclineVertices(b) ==
    LET halfWidth == b.width \div 2
    IN << Vec(-halfWidth, 0), Vec(halfWidth, 0),
          Vec(IF b.flip THEN halfWidth ELSE -halfWidth, b.height) >>

\* Shape::GetVertexWorldPos / Box::GetVertexWorldPos / Incline::GetVertexWorldPos
GetVertexWorldPos(b) ==
    LET vs == IF b.kind \in {"Canon", "Cannon"} THEN CanonVertices(b)
              ELSE IF b.kind = "Incline" THEN InclineVertices(b)
              ELSE BoxVertices(b)
    IN [k \in 1..Len(vs) |-> VAdd(vs[k], b.pos)]

RECURSIVE SeqMin(_, _)
SeqMin(s, k) == IF k = 1 THEN s[1] ELSE Min2(s[k], SeqMin(s, k - 1))

RECURSIVE SeqMax(_, _)
SeqMax(s, k) == IF k = 1 THEN s[1] ELSE Max2(s[k], SeqMax(s, k - 1))

\* the box a body's shape has now: Ball::GetAABB's and Shape::GetAABB's
\* recomputation branch
ComputeAABB(b) ==
    IF b.kind = "Ball"
    THEN AABB(b.pos.x - b.radius, b.pos.y - b.radius,
              b.pos.x + b.radius, b.pos.y + b.radius)
    ELSE LET vs == GetVertexWorldPos(b)
             xs == [k \in 1..Len(vs) |-> vs[k].x]
             ys == [k \in 1..Len(vs) |-> vs[k].y]
         IN AABB(SeqMin(xs, Len(xs)), SeqMin(ys, Len(ys)),
                 SeqMax(xs, Len(xs)), SeqMax(ys, Len(ys)))

\* GetAABB's return value: recomputed when the cache is marked stale
GetAABB(b) == IF b.aabbUpdateRequired THEN ComputeAABB(b) ELSE b.aabb

\* GetAABB's effect on the body: the cache is filled and marked fresh
AABBCached(b) == [b EXCEPT !.aabb = GetAABB(b), !.aabbUpdateRequired = FALSE]

\* a variant: boxes that only touch count as intersecting
IntersectAABBsTouching(a, b) ==
    ~ (a.max.x < b.min.x \/ b.max.x < a.min.x \/
       a.max.y < b.min.y \/ b.max.y < a.min.y)

IntersectAABBs(a, b) ==
    ~ (a.max.x <= b.min.x \/ b.max.x <= a.min.x \/
       a.max.y <= b.min.y \/ b.max.y <= a.min.y)

-----------------------------------------------------------------------------
(* CollisionPipeline::BuildPairs, the uniform-grid broad phase *)

\* CollisionPipeline::cellSize, in pixels
cellSize == 200

\* static_cast<int>(std::floor(v * inverseCellSize))
CellOf(v) == v \div (cellSize * Scale)

\* the 64-bit cellKey(x, y): x in the high word, y in the low word
cellKey(x, y) == <<x, y>>

\* collidable[i]: the body is not a shape::Canon
Collidable(b) == b.kind /= "Canon"

\* a variant: the body is pushed into the cell of its minimum corner only
CellsOfMinCorner(b) ==
    LET box == GetAABB(b)
    IN IF Collidable(b)
       THEN { cellKey(CellOf(box.min.x), CellOf(box.min.y)) }
       ELSE {}

\* the keys of the grid cells body b is pushed into
CellsOf(b) ==
    LET box == GetAABB(b)
    IN IF Collidable(b)
       THEN { cellKey(x, y) : x \in CellOf(box.min.x)..CellOf(box.max.x),
                              y \in CellOf(box.min.y)..CellOf(box.max.y) }
       ELSE {}

\* grid[key]: the indices pushed into the cell, in increasing order (the fill
\* loop runs over i = 0, 1, ...)
RECURSIVE CellIndices(_, _, _)
CellIndices(bodies, key, i) ==
    IF i > Len(bodies) THEN << >>
    ELSE (IF key \in CellsOf(bodies[i]) THEN << i >> ELSE << >>)
         \o CellIndices(bodies, key, i + 1)

GridKeys(bodies) == UNION { CellsOf(bodies[i]) : i \in 1..Len(bodies) }

KeyLess(k1, k2) == k1[1] < k2[1] \/ (k1[1] = k2[1] /\ k1[2] < k2[2])

\* The iteration order of an unordered_map is unspecified.  The model walks
\* the cells by increasing key or, with rev, by decreasing key.
RECURSIVE CellOrder(_, _)
CellOrder(keys, rev) ==
    IF keys = {} THEN << >>
    ELSE LET first == CHOOSE k \in keys :
                          \A o \in keys \ {k} :
                              IF rev THEN KeyLess(o, k) ELSE KeyLess(k, o)
         IN << first >> \o CellOrder(keys \ {first}, rev)

\* the (i, j) visited by the two inner loops over one cell's indices
RECURSIVE CellCandidates(_, _, _)
CellCandidates(indices, a, b) ==
    IF a + 1 > Len(indices) THEN << >>
    ELSE IF b > Len(indices) THEN CellCandidates(indices, a + 1, a + 2)
    ELSE << <<indices[a], indices[b]>> >> \o CellCandidates(indices, a, b + 1)

\* every (i, j) the loops visit, over all cells in iteration order
RECURSIVE Candidates(_, _, _)
Candidates(bodies, order, c) ==
    IF c > Len(order) THEN << >>
    ELSE LET indices == CellIndices(bodies, order[c], 1)
         IN (IF Len(indices) < 2 THEN << >> ELSE CellCandidates(indices, 1, 2))
            \o Candidates(bodies, order, c + 1)

\* the 64-bit pairKey: minIndex in the high word, maxIndex in the low word
PairKey(i, j) == << Min2(i, j), Max2(i, j) >>

BothStatic(a, b) == a.bodyType = "Static" /\ b.bodyType = "Static"

\* the body of the innermost loop, run over the candidates in order;
\* acc = [pairSet, pairs]
RECURSIVE EmitPairs(_, _, _, _)
EmitPairs(bodies, cands, k, acc) ==
    IF k > Len(cands) THEN acc
    ELSE LET i == cands[k][1]
             j == cands[k][2]
             key == PairKey(i, j)
         IN IF BothStatic(bodies[i], bodies[j])
            THEN EmitPairs(bodies, cands, k + 1, acc)
            ELSE IF key \in acc.pairSet
            THEN EmitPairs(bodies, cands, k + 1, acc)
            ELSE IF ~ IntersectAABBs(GetAABB(bodies[i]), GetAABB(bodies[j]))
            THEN EmitPairs(bodies, cands, k + 1,
                           [acc EXCEPT !.pairSet = @ \cup {key}])
            ELSE EmitPairs(bodies, cands, k + 1,
                           [pairSet |-> acc.pairSet \cup {key},
                            pairs |-> Append(acc.pairs, key)])

\* a variant: the list is not cleared
KeepPairs(old) == old

\* pairs.clear()
ClearPairs(old) == << >>

\* BuildPairs: the new value of pairs (old is the list left by the last call)
BuildPairs(bodies, old, rev) ==
    IF Len(bodies) < 2 THEN ClearPairs(old)
    ELSE EmitPairs(bodies,
                   Candidates(bodies, CellOrder(GridKeys(bodies), rev), 1),
                   1,
                   [pairSet |-> {}, pairs |-> ClearPairs(old)]).pairs

\* a variant: the all-pairs loop does not skip two Static bodies
AllPairsAcceptsStatics(bodyA, bodyB) ==
    IntersectAABBs(GetAABB(bodyA), GetAABB(bodyB))

\* the two tests of the all-pairs loop a pair has to pass: not both Static,
\* and the boxes intersect
AllPairsAccepts(bodyA, bodyB) ==
    /\ ~ BothStatic(bodyA, bodyB)
    /\ IntersectAABBs(GetAABB(bodyA), GetAABB(bodyB))

\* the loops for (i = 0; i + 1 < size; i++) for (j = i + 1; j < size; j++)
RECURSIVE AllPairsLoop(_, _, _, _)
AllPairsLoop(bodies, i, j, acc) ==
    IF i + 1 > Len(bodies) THEN acc
    ELSE IF j > Len(bodies) THEN AllPairsLoop(bodies, i + 1, i + 2, acc)
    ELSE AllPairsLoop(bodies, i, j + 1,
                      IF AllPairsAccepts(bodies[i], bodies[j])
                      THEN Append(acc, <<i, j>>) ELSE acc)

\* the all-pairs BuildPairs of core/CollisionPipeline.cpp
BuildPairsAll(bodies, old) == AllPairsLoop(bodies, 1, 2, ClearPairs(old))

\* BuildPairs calls GetAABB on every body: all caches are fresh afterwards
AllCached(bodies) == [i \in 1..Len(bodies) |-> AABBCached(bodies[i])]

-----------------------------------------------------------------------------
(* World::Add and the handles *)

\* the ids (addresses) of the live bodies
LiveIds(bodies) == { bodies[i].id : i \in 1..Len(bodies) }

\* the address of a newly allocated body: one no live body has (the
\* allocator may hand out a freed address again; the least free one is taken)
NewId(bodies) ==
    CHOOSE n \in 1..(Len(bodies) + 1) :
        /\ n \notin LiveIds(bodies)
        /\ \A m \in 1..(n - 1) : m \in LiveIds(bodies)

\* World::Add: objects.push_back
Add(bodies, body) == Append(bodies, body)

-----------------------------------------------------------------------------
(* Specification SpecPairs: bodies are added to the world and the broad     *)
(* phase is run on the list, any number of times.                           *)

\* at most this many bodies in the world of SpecPairs
MaxPairBodies == 3

\* centre coordinates (pixels) and half extents the added bodies are drawn from
PairXs == {-150, 90, 170}

PairYHs == { <<-30, 40>>, <<100, 160>> }

PairKinds == { <<"Box", "Static">>, <<"Ball", "Dynamic">>, <<"Canon", "Static">> }

\* the body a spawn request with these settings constructs
PairBody(id, kt, x, yh) ==
    Rigidbody(id, kt[1], kt[2], Vec(x * Scale, yh[1] * Scale), VZero,
              yh[2] * Scale, 2 * yh[2] * Scale, 2 * yh[2] * Scale, 40)

\* the defaults of the time-control state (settings.hpp, Engine.cpp, Recorder)
TimeIdle ==
    /\ rewinding = FALSE
    /\ scrubIndex = -1
    /\ timeScale = Scale
    /\ stepOneFrame = FALSE
    /\ recordInterval = 1
    /\ recordFrameCounter = 0
    /\ spawnNudgeFrames = 0
    /\ history = << >>

IdleFrame ==
    /\ TimeIdle
    /\ recording = FALSE
    /\ selectedBody = 0
    /\ draggedBody = 0
    /\ pc = "idle"
    /\ deltaMs = 0
    /\ requested = 0
    /\ iterations = 0
    /\ currIteration = 0
    /\ pairIdx = 0
    /\ prevPositions = << >>
    /\ integratedPositions = << >>
    /\ snap = << >>
    /\ bodyIdx = 0
    /\ paused = FALSE

frameVars == <<recording, selectedBody, draggedBody, pc, deltaMs, requested,
               iterations, currIteration, pairIdx, prevPositions,
               integratedPositions, snap, bodyIdx, paused, timeVars>>

InitPairs ==
    /\ objects = << >>
    /\ pairs = << >>
    /\ aux = [built |-> FALSE, before |-> 0, allBuilt |-> FALSE, all |-> << >>]
    /\ IdleFrame

PairsAdd ==
    /\ Len(objects) < MaxPairBodies
    /\ \E kt \in PairKinds, x \in PairXs, yh \in PairYHs :
          objects' = Add(objects, PairBody(NewId(objects), kt, x, yh))
    /\ aux' = [built |-> FALSE, before |-> aux.before, allBuilt |-> FALSE,
               all |-> aux.all]
    /\ UNCHANGED <<pairs, frameVars>>

PairsBuild ==
    /\ \E rev \in BOOLEAN : pairs' = BuildPairs(objects, pairs, rev)
    /\ objects' = IF Len(objects) < 2 THEN objects ELSE AllCached(objects)
    /\ aux' = [aux EXCEPT !.built = TRUE, !.before = Len(pairs)]
    /\ UNCHANGED frameVars

\* the all-pairs BuildPairs run on the same list; aux.all is its pair list
PairsBuildAll ==
    /\ aux' = [aux EXCEPT !.allBuilt = TRUE, !.all = BuildPairsAll(objects, @)]
    /\ objects' = IF Len(objects) < 2 THEN objects ELSE AllCached(objects)
    /\ UNCHANGED <<pairs, frameVars>>

NextPairs == PairsAdd \/ PairsBuild \/ PairsBuildAll

SpecPairs == InitPairs /\ [][NextPairs]_vars

-----------------------------------------------------------------------------
(* Properties of the broad phase (checked under SpecPairs) *)

Range(seq) == { seq[k] : k \in 1..Len(seq) }

\* the boxes overlap with positive area
Overlap(a, b) ==
    /\ a.min.x < b.max.x /\ b.min.x < a.max.x
    /\ a.min.y < b.max.y /\ b.min.y < a.max.y

\* the true box of body i of the world
BoxOfBody(i) == ComputeAABB(objects[i])

\* i and j are a pair the broad phase has to report
Eligible(i, j) ==
    /\ ~ (objects[i].bodyType = "Static" /\ objects[j].bodyType = "Static")
    /\ objects[i].kind /= "Canon"
    /\ objects[j].kind /= "Canon"

\* the grid cells (by floor division) a box covers
CoveredCells(box) ==
    { <<x, y>> : x \in (box.min.x \div (cellSize * Scale))..(box.max.x \div (cellSize * Scale)),
                 y \in (box.min.y \div (cellSize * Scale))..(box.max.y \div (cellSize * Scale)) }

\* C1: after BuildPairs, every pair of distinct bodies that are not both
\* Static, are not cannon emitters and whose AABBs overlap is in the pair list
\* as (min(i,j), max(i,j)).
C1_Complete ==
    aux.built =>
        \A i, j \in 1..Len(objects) :
            (i < j /\ Eligible(i, j) /\ Overlap(BoxOfBody(i), BoxOfBody(j)))
                => <<i, j>> \in Range(pairs)

\* a reported pair whose boxes span several cells, share more than one cell
\* and reach negative coordinates
C1_Witness ==
    /\ aux.built
    /\ \E i, j \in 1..Len(objects) :
          /\ i < j /\ Eligible(i, j) /\ Overlap(BoxOfBody(i), BoxOfBody(j))
          /\ <<i, j>> \in Range(pairs)
          /\ Cardinality(CoveredCells(BoxOfBody(i)) \cap CoveredCells(BoxOfBody(j))) > 1
          /\ Cardinality(CoveredCells(BoxOfBody(i))) > 1
          /\ BoxOfBody(i).min.x < 0 /\ BoxOfBody(j).min.y < 0

\* C4: the pair list left by a BuildPairs call holds no pair twice, also when
\* the two bodies share several cells and when the list was not empty before
\* the call.
C4_NoDuplicates ==
    aux.built =>
        \A p, q \in 1..Len(pairs) : p /= q => pairs[p] /= pairs[q]

C4_Witness ==
    /\ aux.built
    /\ aux.before > 0
    /\ \E p \in 1..Len(pairs) :
          Cardinality(CoveredCells(BoxOfBody(pairs[p][1]))
                      \cap CoveredCells(BoxOfBody(pairs[p][2]))) > 1

\* C5: every emitted pair (a, b) has a < b within the body list, its bodies
\* are not both Static and their AABBs overlap.
C5_Sound ==
    aux.built =>
        \A p \in 1..Len(pairs) :
            LET a == pairs[p][1]
                b == pairs[p][2]
            IN /\ 1 <= a /\ a < b /\ b <= Len(objects)
               /\ ~ (objects[a].bodyType = "Static" /\ objects[b].bodyType = "Static")
               /\ Overlap(BoxOfBody(a), BoxOfBody(b))

\* a list with an emitted pair, an overlapping Static-Static pair that was
\* skipped, and two bodies of one cell whose boxes do not overlap
C5_Witness ==
    /\ aux.built
    /\ Len(pairs) > 0
    /\ \E i, j \in 1..Len(objects) :
          /\ i < j
          /\ objects[i].bodyType = "Static" /\ objects[j].bodyType = "Static"
          /\ objects[i].kind /= "Canon" /\ objects[j].kind /= "Canon"
          /\ Overlap(BoxOfBody(i), BoxOfBody(j))
    /\ \E i, j \in 1..Len(objects) :
          /\ i < j /\ Eligible(i, j)
          /\ CoveredCells(BoxOfBody(i)) \cap CoveredCells(BoxOfBody(j)) /= {}
          /\ ~ Overlap(BoxOfBody(i), BoxOfBody(j))

-----------------------------------------------------------------------------
(* Snapshots: World::CaptureSnapshot and World::RestoreSnapshot *)

\* a capture that leaves linearAcc at its default
BodySnapshotNoAcc(obj) ==
    [pos |-> obj.pos, linearVel |-> obj.linearVel, linearAcc |-> VZero,
     rotation |-> obj.rotation, angularVel |-> obj.angularVel]

\* BodySnapshot, as CaptureSnapshot fills it from one body
BodySnapshot(obj) ==
    [pos |-> obj.pos, linearVel |-> obj.linearVel, linearAcc |-> obj.linearAcc,
     rotation |-> obj.rotation, angularVel |-> obj.angularVel]

\* World::CaptureSnapshot: one BodySnapshot per body, in list order
CaptureSnapshot(bodies) == [i \in 1..Len(bodies) |-> BodySnapshot(bodies[i])]

\* a count that restores only when the two lengths agree
RestoreCountIfEqual(m, k) == IF m = k THEN k ELSE 0

\* RestoreSnapshot's n = std::min(snap.bodies.size(), objects.size())
RestoreCount(m, k) == Min2(m, k)

\* the five assignments RestoreSnapshot makes to one body
RestoreBody(obj, s) ==
    [obj EXCEPT !.pos = s.pos, !.linearVel = s.linearVel,
                !.linearAcc = s.linearAcc, !.rotation = s.rotation,
                !.angularVel = s.angularVel]

\* World::RestoreSnapshot
RestoreSnapshot(bodies, s) ==
    LET n == RestoreCount(Len(s), Len(bodies))
    IN [i \in 1..Len(bodies) |->
            IF i <= n THEN RestoreBody(bodies[i], s[i]) ELSE bodies[i]]

\* World::RemoveObject: erase the body the handle points to, if it is in the list
RemoveObject(bodies, id) ==
    SelectSeq(bodies, LAMBDA b : b.id /= id)

-----------------------------------------------------------------------------
(* Specification SpecSnap: bodies are added and removed, ticks change their *)
(* kinematic state, and snapshots are captured and restored in any order.   *)

\* at most this many bodies in the world of SpecSnap
MaxSnapBodies == 3

\* the kinematic states a body is seen in: as spawned, and in flight
SnapKinematics ==
    { [pos |-> Vec(0, 0), linearVel |-> Vec(300 * Scale, 0), linearAcc |-> VZero,
       rotation |-> 0, angularVel |-> 0],
      [pos |-> Vec(120 * Scale, -45 * Scale), linearVel |-> Vec(300 * Scale, -981 * Scale),
       linearAcc |-> Vec(0, -981 * Scale), rotation |-> 30 * Scale,
       angularVel |-> 15 * Scale] }

\* a spawned ball of radius 20 px
SnapBody(id) ==
    Rigidbody(id, "Ball", "Dynamic", Vec(0, 0), Vec(300 * Scale, 0),
              20 * Scale, 0, 0, 40)

InitSnap ==
    /\ objects = << >>
    /\ pairs = << >>
    /\ aux = [op |-> "none", before |-> << >>, used |-> << >>]
    /\ IdleFrame

snapFrame == <<pairs, recording, selectedBody, draggedBody, pc, deltaMs, requested,
               iterations, currIteration, pairIdx, prevPositions,
               integratedPositions, bodyIdx, paused, timeVars>>

\* World::Add of a spawned body
SnapAdd ==
    /\ Len(objects) < MaxSnapBodies
    /\ objects' = Add(objects, SnapBody(NewId(objects)))
    /\ aux' = [op |-> "add", before |-> << >>, used |-> << >>]
    /\ UNCHANGED <<snap, snapFrame>>

\* World::RemoveObject of one body
SnapRemove ==
    /\ \E i \in 1..Len(objects) : objects' = RemoveObject(objects, objects[i].id)
    /\ aux' = [op |-> "remove", before |-> << >>, used |-> << >>]
    /\ UNCHANGED <<snap, snapFrame>>

\* a tick has moved one body: its kinematic fields take another value
SnapTick ==
    /\ \E i \in 1..Len(objects), k \in SnapKinematics :
          /\ BodySnapshot(objects[i]) /= k
          /\ objects' = [objects EXCEPT ![i] = RestoreBody(@, k)]
    /\ aux' = [op |-> "tick", before |-> << >>, used |-> << >>]
    /\ UNCHANGED <<snap, snapFrame>>

\* snap = world.CaptureSnapshot()
SnapCapture ==
    /\ snap' = CaptureSnapshot(objects)
    /\ aux' = [op |-> "capture", before |-> << >>, used |-> << >>]
    /\ UNCHANGED <<objects, snapFrame>>

\* world.RestoreSnapshot(snap) with the snapshot kept from an earlier capture
SnapRestore ==
    /\ objects' = RestoreSnapshot(objects, snap)
    /\ aux' = [op |-> "restore", before |-> objects, used |-> snap]
    /\ UNCHANGED <<snap, snapFrame>>

\* world.RestoreSnapshot(world.CaptureSnapshot())
SnapRoundTrip ==
    /\ objects' = RestoreSnapshot(objects, CaptureSnapshot(objects))
    /\ aux' = [op |-> "roundtrip", before |-> objects, used |-> << >>]
    /\ UNCHANGED <<snap, snapFrame>>

NextSnap ==
    \/ SnapAdd
    \/ SnapRemove
    \/ SnapTick
    \/ SnapCapture
    \/ SnapRestore
    \/ SnapRoundTrip

SpecSnap == InitSnap /\ [][NextSnap]_vars

-----------------------------------------------------------------------------
(* Properties of the snapshots (checked under SpecSnap) *)

\* the fields of a body that no snapshot holds
NonKinematic(b) ==
    [id |-> b.id, kind |-> b.kind, bodyType |-> b.bodyType, radius |-> b.radius,
     width |-> b.width, height |-> b.height, restitution |-> b.restitution,
     mass |-> b.mass, staticFriction |-> b.staticFriction,
     kineticFriction |-> b.kineticFriction,
     normalImpulseAccum |-> b.normalImpulseAccum,
     frictionImpulseAccum |-> b.frictionImpulseAccum,
     normalForce |-> b.normalForce, frictionForce |-> b.frictionForce,
     isColliding |-> b.isColliding,
     wasCollidingLastFrame |-> b.wasCollidingLastFrame, action |-> b.action,
     aabb |-> b.aabb, aabbUpdateRequired |-> b.aabbUpdateRequired]

\* C6: RestoreSnapshot(CaptureSnapshot()) applied at once leaves pos,
\* linearVel, linearAcc, rotation and angularVel of every body as they were,
\* and leaves the number of bodies and their order as they were.
C6_RoundTripNoOp ==
    aux.op = "roundtrip" =>
        /\ Len(objects) = Len(aux.before)
        /\ \A i \in 1..Len(objects) :
              /\ objects[i].id = aux.before[i].id
              /\ objects[i].pos = aux.before[i].pos
              /\ objects[i].linearVel = aux.before[i].linearVel
              /\ objects[i].linearAcc = aux.before[i].linearAcc
              /\ objects[i].rotation = aux.before[i].rotation
              /\ objects[i].angularVel = aux.before[i].angularVel

\* a round trip on a world of two bodies in different states, one in flight
C6_Witness ==
    /\ aux.op = "roundtrip"
    /\ Len(objects) >= 2
    /\ \E i, j \in 1..Len(objects) :
          /\ BodySnapshot(objects[i]) /= BodySnapshot(objects[j])
          /\ objects[i].linearAcc /= VZero

\* C7: RestoreSnapshot with a snapshot of m entries on a world of k bodies
\* gives bodies 1..min(m,k) the snapshot's kinematic fields and nothing else,
\* leaves bodies min(m,k)+1..k as they were in every field, and keeps the
\* number of bodies and their order; an empty snapshot changes nothing.
C7_PrefixOnly ==
    aux.op = "restore" =>
        LET m == Len(aux.used)
            k == Len(aux.before)
            n == IF m < k THEN m ELSE k
        IN /\ Len(objects) = k
           /\ \A i \in 1..k :
                 /\ NonKinematic(objects[i]) = NonKinematic(aux.before[i])
                 /\ i <= n => BodySnapshot(objects[i]) = aux.used[i]
                 /\ i > n => objects[i] = aux.before[i]
           /\ m = 0 => objects = aux.before

\* a restore of a shorter snapshot that changed a prefix body and left a
\* body beyond the prefix in a state the snapshot does not hold
C7_Witness ==
    /\ aux.op = "restore"
    /\ Len(aux.used) >= 1
    /\ Len(aux.used) < Len(aux.before)
    /\ objects[1] /= aux.before[1]
    /\ BodySnapshot(objects[Len(objects)]) /= BodySnapshot(objects[1])

\* a restore of a snapshot longer than the world
C7_WitnessLonger ==
    /\ aux.op = "restore"
    /\ Len(aux.used) > Len(aux.before)
    /\ Len(aux.before) >= 1
    /\ objects /= aux.before

-----------------------------------------------------------------------------
(* World::ClampIterations and World::ComputeAdaptiveIterations *)

\* SimulationConstants::MIN_PHYSICS_ITERATIONS and MAX_PHYSICS_ITERATIONS
MIN_PHYSICS_ITERATIONS == 1

MAX_PHYSICS_ITERATIONS == 128

\* a clamp without the upper bound
ClampIterationsLowOnly(value) ==
    IF value < MIN_PHYSICS_ITERATIONS THEN MIN_PHYSICS_ITERATIONS ELSE value

\* World::ClampIterations
ClampIterations(value) ==
    IF value < MIN_PHYSICS_ITERATIONS THEN MIN_PHYSICS_ITERATIONS
    ELSE IF value > MAX_PHYSICS_ITERATIONS THEN MAX_PHYSICS_ITERATIONS
    ELSE value

\* a variant: the quotient truncated instead of rounded up
FloorDiv(n, d) == n \div d

\* std::ceil(n / d) for n >= 0, d > 0
CeilDiv(n, d) == (n + d - 1) \div d

\* a float component too large for an int (an infinite or overflowed velocity)
IsHuge(x) == Abs(x) >= SqSat

\* results a static_cast<int> of a float outside the range of int (or of a
\* NaN) may produce: the conversion is undefined, any int can come out
IntOutcomes == {-2147483647, -1, 0, 1, 64, 200, 2147483647}

\* obj->linearVel.Length(), in units per second; SqSat for a huge velocity
Speed(obj) ==
    IF IsHuge(obj.linearVel.x) \/ IsHuge(obj.linearVel.y) THEN SqSat
    ELSE Length(obj.linearVel)

\* the diagonal of the body's AABB (twice the bodySize of the code)
Diagonal(obj) ==
    LET box == GetAABB(obj)
    IN Length(Vec(box.max.x - box.min.x, box.max.y - box.min.y))

\* the body takes part in the estimate: Dynamic, speed >= 1 px/s,
\* bodySize >= 0.1 px
Boosting(obj) ==
    /\ obj.bodyType = "Dynamic"
    /\ Speed(obj) >= Scale
    /\ 5 * Diagonal(obj) >= Scale

\* speed * dtSeconds, in units (deltaCs is deltaMs in 1/100 ms)
DistanceThisFrame(speed, deltaCs) == MulDiv(speed, deltaCs, 1000 * Scale)

\* neededIter = static_cast<int>(std::ceil(distanceThisFrame /
\* (CFL_SAFETY_FACTOR * bodySize))), as the set of values it can take
NeededIter(obj, deltaCs) ==
    IF Speed(obj) = SqSat THEN IntOutcomes
    ELSE { CeilDiv(4 * DistanceThisFrame(Speed(obj), deltaCs), Diagonal(obj)) }

\* the values minNeeded can have after the loop has visited bodies 1..k
RECURSIVE MinNeeded(_, _, _, _)
MinNeeded(bodies, k, deltaCs, requestedIterations) ==
    IF k = 0 THEN { requestedIterations }
    ELSE LET before == MinNeeded(bodies, k - 1, deltaCs, requestedIterations)
         IN IF ~ Boosting(bodies[k]) THEN before
            ELSE { Max2(m, n) : m \in before, n \in NeededIter(bodies[k], deltaCs) }

\* World::ComputeAdaptiveIterations: the set of values it can return
ComputeAdaptiveIterations(bodies, deltaCs, requestedIterations) ==
    { ClampIterations(m) :
        m \in MinNeeded(bodies, Len(bodies), deltaCs, requestedIterations) }

\* the bodies after ComputeAdaptiveIterations: GetAABB has filled the cache of
\* every Dynamic body that moves at 1 px/s or more
AfterAdaptive(bodies) ==
    [i \in 1..Len(bodies) |->
        IF bodies[i].bodyType = "Dynamic" /\ Speed(bodies[i]) >= Scale
        THEN AABBCached(bodies[i]) ELSE bodies[i]]

-----------------------------------------------------------------------------
(* Specification SpecIter: bodies are added to the world and the adaptive   *)
(* iteration count is computed for a tick duration and a requested count.   *)

\* at most this many bodies in the world of SpecIter
MaxIterBodies == 2

\* the bodies added: <<body type, velocity, radius>> of a ball, among them a
\* static one, a slow one (0.5 px/s), a degenerate one (radius 0.05 px) and
\* one whose velocity has overflowed
IterBodies ==
    { <<"Static", Vec(30000 * Scale, 0), 20 * Scale>>,
      <<"Dynamic", Vec(3000 * Scale, 0), 5 * Scale>>,
      <<"Dynamic", Vec(50, 0), 20 * Scale>>,
      <<"Dynamic", Vec(300 * Scale, -400 * Scale), 20 * Scale>>,
      <<"Dynamic", Vec(0, -30000 * Scale), 1 * Scale>>,
      <<"Dynamic", Vec(30000 * Scale, 0), 5>>,
      <<"Dynamic", Vec(SqSat, 0), 20 * Scale>> }

\* tick durations in 1/100 ms: paused, one 60 Hz frame, a long frame
IterDeltas == {0, 1667, 5001}

\* the iteration counts a caller passes
IterRequested == {-3, 0, 10, 128, 200}

IterBody(id, b) == Rigidbody(id, "Ball", b[1], Vec(0, 0), b[2], b[3], 0, 0, 40)

InitIter ==
    /\ objects = << >>
    /\ pairs = << >>
    /\ aux = [op |-> "none"]
    /\ IdleFrame

iterFrame == <<pairs, recording, selectedBody, draggedBody, pc, currIteration,
               pairIdx, prevPositions, integratedPositions, snap, bodyIdx, paused,
               timeVars>>

\* World::Add
IterAdd ==
    /\ Len(objects) < MaxIterBodies
    /\ \E b \in IterBodies : objects' = Add(objects, IterBody(NewId(objects), b))
    /\ aux' = [op |-> "add"]
    /\ UNCHANGED <<deltaMs, requested, iterations, iterFrame>>

\* iterations = ComputeAdaptiveIterations(deltaMs, iterations)
IterCompute ==
    /\ \E d \in IterDeltas, r \in IterRequested :
          /\ deltaMs' = d
          /\ requested' = r
          /\ iterations' \in ComputeAdaptiveIterations(objects, d, r)
    /\ objects' = AfterAdaptive(objects)
    /\ aux' = [op |-> "compute"]
    /\ UNCHANGED iterFrame

NextIter == IterAdd \/ IterCompute

SpecIter == InitIter /\ [][NextIter]_vars

-----------------------------------------------------------------------------
(* Properties of the adaptive iteration count (checked under SpecIter) *)

WithinCFL(obj, deltaCs, n) ==
    4 * DistanceThisFrame(Speed(obj), deltaCs) <= n * Diagonal(obj)

\* the body is Dynamic, moves at 1 px/s or more with a finite velocity and
\* has a size of 0.1 px or more
Estimated(obj) == Boosting(obj) /\ Speed(obj) # SqSat

\* the sub-step count the body needs on its own
OwnNeed(obj, deltaCs) ==
    CeilDiv(4 * DistanceThisFrame(Speed(obj), deltaCs), Diagonal(obj))

-----------------------------------------------------------------------------
(* collision::Collide, the narrow phase.  The Dynamic bodies of the worlds  *)
(* modelled are balls; polygons (Box, Trigger) are Static and keep rotation *)
(* 0, so their edge normals are exact unit vectors.                         *)

\* HitInfo
HitInfo(result, normal, depth) == [result |-> result, normal |-> normal, depth |-> depth]

\* Vec2(-edge.y, edge.x)
Perp(v) == Vec(-v.y, v.x)

\* ProjectionRange of a polygon on an axis
ProjectVertices(vertices, axis) ==
    LET Span(ps) == [min |-> SeqMin(ps, Len(ps)), max |-> SeqMax(ps, Len(ps))]
    IN Span([k \in 1..Len(vertices) |-> Dot(vertices[k], axis)])

\* ProjectionRange of a circle on an axis
ProjectCircle(center, radius, axis) ==
    LET Span(p1, p2) == [min |-> Min2(p1, p2), max |-> Max2(p1, p2)]
        Around(dirRad) == Span(Dot(VAdd(center, dirRad), axis),
                               Dot(VSub(center, dirRad), axis))
    IN Around(VScale(axis, radius))

\* a variant: ranges that only touch are not separated
SeparatedStrict(projA, projB) == projA.min > projB.max \/ projB.min > projA.max

\* the SAT test on one axis: projA.min >= projB.max || projB.min >= projA.max
Separated(projA, projB) == projA.min >= projB.max \/ projB.min >= projA.max

\* std::min(projB.max - projA.min, projA.max - projB.min)
AxisDepth(projA, projB) == Min2(projB.max - projA.min, projA.max - projB.min)

\* the normalised edge normals of a polygon, in vertex order
EdgeAxes(vertices) ==
    [i \in 1..Len(vertices) |->
        Normalize(Perp(VSub(vertices[(i % Len(vertices)) + 1], vertices[i])))]

\* FindClosestPointOnPolygon: index of the first vertex nearest to the centre
FindClosestPointOnPolygon(circleCenter, vertices) ==
    CHOOSE i \in 1..Len(vertices) :
        /\ \A k \in 1..Len(vertices) :
              DistanceSquared(vertices[i], circleCenter) <=
                  DistanceSquared(vertices[k], circleCenter)
        /\ \A k \in 1..(i - 1) :
              DistanceSquared(vertices[k], circleCenter) >
                  DistanceSquared(vertices[i], circleCenter)

\* one axis of a SAT loop: the hit so far, given the two projections on the
\* axis (a separating axis ends the test; a smaller overlap becomes the hit)
AxisTested(hit, projA, projB, axis) ==
    IF ~ hit.result THEN hit
    ELSE IF Separated(projA, projB) THEN HitInfo(FALSE, hit.normal, hit.depth)
    ELSE IF AxisDepth(projA, projB) < hit.depth
         THEN HitInfo(TRUE, axis, AxisDepth(projA, projB))
    ELSE hit

\* the end of both polygon tests: the normal of a hit is turned to point
\* along direction
Oriented(hit, direction) ==
    IF ~ hit.result THEN hit
    ELSE IF Dot(direction, hit.normal) < 0
         THEN HitInfo(TRUE, VNeg(hit.normal), hit.depth)
    ELSE hit

\* the loop of IntersectCirclePolygon over axes 1..k: the hit so far.  The
\* vertices are taken relative to the circle centre (rel), which shifts both
\* projection ranges alike and keeps the products small.
RECURSIVE CircleAxes(_, _, _, _)
CircleAxes(axes, k, rel, circleRadius) ==
    IF k = 0 THEN HitInfo(TRUE, VZero, SqSat)
    ELSE AxisTested(CircleAxes(axes, k - 1, rel, circleRadius),
                    ProjectVertices(rel, axes[k]),
                    ProjectCircle(VZero, circleRadius, axes[k]), axes[k])

\* IntersectCirclePolygon: the edge normals, then the axis towards the
\* closest vertex; the normal is turned to point from the circle to the polygon
IntersectCirclePolygon(circleCenter, circleRadius, polygonCenter, vertices) ==
    LET AxisTo(closestDir) ==
            IF closestDir = VZero THEN Vec(Scale, 0) ELSE Normalize(closestDir)
        Over(axes) ==
            CircleAxes(axes, Len(axes),
                       [k \in 1..Len(vertices) |-> VSub(vertices[k], circleCenter)],
                       circleRadius)
    IN Oriented(Over(Append(EdgeAxes(vertices),
                            AxisTo(VSub(vertices[FindClosestPointOnPolygon(circleCenter,
                                                                            vertices)],
                                        circleCenter)))),
                VSub(polygonCenter, circleCenter))

\* the loops of IntersectPolygons over axes 1..k
RECURSIVE PolygonAxes(_, _, _, _)
PolygonAxes(axes, k, verticesA, verticesB) ==
    IF k = 0 THEN HitInfo(TRUE, VZero, SqSat)
    ELSE AxisTested(PolygonAxes(axes, k - 1, verticesA, verticesB),
                    ProjectVertices(verticesA, axes[k]),
                    ProjectVertices(verticesB, axes[k]), axes[k])

\* IntersectPolygons: the edge normals of A, then of B; the normal is turned
\* to point along centerB - centerA
IntersectPolygons(centerA, verticesA, centerB, verticesB) ==
    LET Over(axes) == PolygonAxes(axes, Len(axes), verticesA, verticesB)
    IN Oriented(Over(EdgeAxes(verticesA) \o EdgeAxes(verticesB)),
                VSub(centerB, centerA))

\* a variant: circles that only touch are not apart
CirclesApartStrict(radii, distanceSq, distance) ==
    IF radii > SqLim \/ distanceSq = SqSat
    THEN distance > radii ELSE distanceSq > radii * radii

\* distanceSq >= radiiSq.  The squares are compared when they fit in 32 bits
\* and the lengths otherwise.
CirclesApart(radii, distanceSq, distance) ==
    IF radii > SqLim \/ distanceSq = SqSat
    THEN distance >= radii ELSE distanceSq >= radii * radii

\* IntersectCircles
IntersectCircles(centerA, radiusA, centerB, radiusB) ==
    LET Hit(radii, delta, distance) ==
            HitInfo(TRUE,
                    IF distance > 0 THEN Vec(FDiv(delta.x, distance), FDiv(delta.y, distance))
                    ELSE Vec(Scale, 0),
                    radii - distance)
        Near(radii, delta, distanceSq, distance) ==
            IF CirclesApart(radii, distanceSq, distance)
            THEN HitInfo(FALSE, VZero, 0)
            ELSE Hit(radii, delta, distance)
        Of(radii, delta, distanceSq) ==
            Near(radii, delta, distanceSq,
                 IF radii > SqLim \/ distanceSq = SqSat THEN Length(delta)
                 ELSE ISqrt(distanceSq))
    IN Of(radiusA + radiusB, VSub(centerB, centerA), DistanceSquared(centerA, centerB))

\* what the dynamic_casts of Collide tell apart
IsBox(b) == b.kind = "Box"

IsBall(b) == b.kind = "Ball"

IsTrigger(b) == b.kind = "Trigger"

IsIncline(b) == b.kind = "Incline"

\* a variant: the hit of the circle-polygon test, returned as it is
TurnedNever(hit, circleIsB) == hit

\* the hit of a circle and a polygon as Collide returns it: with the normal
\* negated in the branches with the circle as body B
Turned(hit, circleIsB) ==
    IF circleIsB /\ hit.result THEN HitInfo(TRUE, VNeg(hit.normal), hit.depth) ELSE hit

\* collision::Collide: the dispatch on the two shapes (Box, Incline and
\* Trigger are the polygons).  A Cannon or Canon matches no branch and yields
\* the default HitInfo (no hit).
Collide(bodyA, bodyB) ==
    LET CirclePolygon(circle, polygon) ==
            IntersectCirclePolygon(circle.pos, circle.radius,
                                   polygon.pos, GetVertexWorldPos(polygon))
        Of(polyA, polyB) ==
            IF polyA /\ polyB
            THEN IntersectPolygons(bodyA.pos, GetVertexWorldPos(bodyA),
                                   bodyB.pos, GetVertexWorldPos(bodyB))
            ELSE IF (polyA /\ IsBall(bodyB)) \/ (IsBall(bodyA) /\ polyB)
            THEN Turned(CirclePolygon(IF polyA THEN bodyB ELSE bodyA,
                                      IF polyA THEN bodyA ELSE bodyB), polyA)
            ELSE IF IsBall(bodyA) /\ IsBall(bodyB)
            THEN IntersectCircles(bodyA.pos, bodyA.radius, bodyB.pos, bodyB.radius)
            ELSE HitInfo(FALSE, VZero, 0)
    IN Of(IsBox(bodyA) \/ IsIncline(bodyA) \/ IsTrigger(bodyA),
          IsBox(bodyB) \/ IsIncline(bodyB) \/ IsTrigger(bodyB))

-----------------------------------------------------------------------------
(* CollisionSolver: separation and impulses.  Every contact of a ball has   *)
(* one contact point (contactCount = 1).                                    *)

\* PhysicsConstants::GRAVITY in 1/100 m/s^2, SimulationConstants::PIXELS_PER_METER
GRAVITY == 981

PIXELS_PER_METER == 100

\* PhysicsConstants::MAX_PENETRATION_CORRECTION, in pixels
MAX_PENETRATION_CORRECTION == 5

\* kRestVelThreshold, in pixels per second
kRestVelThreshold == 5

\* GRAVITY * PIXELS_PER_METER, in units per second squared
gPPM == (GRAVITY * PIXELS_PER_METER * Scale) \div 100

\* a variant: the inverse mass of a body of any type
InvMassOfAny(b) == FDiv(Scale, b.mass)

\* Rigidbody::invMass, as the constructor sets it
InvMass(b) == IF b.bodyType = "Static" THEN 0 ELSE FDiv(Scale, b.mass)

\* ComputeInertia of the shape, in kg px^2 (fixed point)
Inertia(b) ==
    IF b.kind = "Ball" THEN MulDiv(MulDiv(b.radius, b.radius, 2 * Scale), b.mass, Scale)
    ELSE IF b.kind \in {"Box", "Trigger"}
    THEN MulDiv(MulDiv(b.width, b.width, 12 * Scale) +
                MulDiv(b.height, b.height, 12 * Scale), b.mass, Scale)
    ELSE 0

\* whether UpdateMassProperties has left invInertia at 0
NoInvInertia(b) == b.bodyType = "Static" \/ Inertia(b) = 0

\* x * x * body.invInertia
TimesInvInertia(b, x) ==
    LET Over(inertia) == IF b.bodyType = "Static" \/ inertia = 0 THEN 0
                         ELSE MulDiv(MulDiv(x, x, Scale), Scale, inertia)
    IN Over(Inertia(b))

\* body.invInertia * cross
AngularChange(b, cross) ==
    LET Over(inertia) == IF b.bodyType = "Static" \/ inertia = 0 THEN 0
                         ELSE MulDiv(cross, Scale, inertia)
    IN Over(Inertia(b))

\* Rigidbody::Translate
Translate(b, amount) ==
    [b EXCEPT !.pos = VAdd(b.pos, amount), !.aabbUpdateRequired = TRUE]

\* the correction SeparateBodies applies: the mtv, cut to MAX_PENETRATION_CORRECTION
Correction(mtv) ==
    LET Cut(maxCorrectionDepth, mtvLength) ==
            IF mtvLength > maxCorrectionDepth
            THEN Vec(MulDiv(mtv.x, maxCorrectionDepth, mtvLength),
                     MulDiv(mtv.y, maxCorrectionDepth, mtvLength))
            ELSE mtv
    IN Cut(MAX_PENETRATION_CORRECTION * Scale, Length(mtv))

\* half of a vector (correction / 2.0f)
Halved(v) == Vec(MulDiv(v.x, 1, 2), MulDiv(v.y, 1, 2))

\* CollisionSolver::SeparateBodies: the two bodies afterwards
SeparateBodies(bodyA, bodyB, mtv) ==
    LET By(correction) ==
            IF bodyA.bodyType = "Static" THEN <<bodyA, Translate(bodyB, correction)>>
            ELSE IF bodyB.bodyType = "Static"
            THEN <<Translate(bodyA, VNeg(correction)), bodyB>>
            ELSE <<Translate(bodyA, Halved(VNeg(correction))),
                   Translate(bodyB, Halved(correction))>>
    IN By(Correction(mtv))

\* PointSegmentDistance: the closest point of segment a-b to p and its squared
\* distance; the projection is taken along the unit vector of the edge
PointSegmentDistance(p, a, b) ==
    LET Closest(len, u, t) == IF len = 0 \/ t <= 0 THEN a
                              ELSE IF t >= len THEN b
                              ELSE VAdd(a, VScale(u, t))
        Along(len, u) == Closest(len, u, Dot(VSub(p, a), u))
        To(cp) == [distSq |-> DistanceSquared(p, cp), cp |-> cp]
        Of(ab) == To(Along(Length(ab), Normalize(ab)))
    IN Of(VSub(b, a))

\* the loop of FindCirclePolygonContactPoint over edges 1..k (the first edge
\* always beats the initial minDistSq)
RECURSIVE ClosestOnEdges(_, _, _)
ClosestOnEdges(circleCenter, vertices, k) ==
    LET Nearer(cur, best, first) ==
            IF first THEN cur ELSE IF cur.distSq < best.distSq THEN cur ELSE best
    IN IF k = 0 THEN [distSq |-> SqSat, cp |-> VZero]
       ELSE Nearer(PointSegmentDistance(circleCenter, vertices[k],
                                        vertices[(k % Len(vertices)) + 1]),
                   ClosestOnEdges(circleCenter, vertices, k - 1), k = 1)

FindCirclePolygonContactPoint(circleCenter, vertices) ==
    ClosestOnEdges(circleCenter, vertices, Len(vertices)).cp

\* FindCircleCircleContactPoint
FindCircleCircleContactPoint(centerA, radiusA, centerB) ==
    VAdd(centerA, VScale(Normalize(VSub(centerB, centerA)), radiusA))

\* collision::FindContactPoints for the pairs that hold a ball: contact1 and
\* contactCount.  (Two polygons meet in the worlds modelled only when both are
\* Static, and such a pair never reaches the solver.)  A Trigger or Cannon
\* matches no branch.
FindContactPoints(bodyA, bodyB) ==
    LET CirclePolygon(circle, polygon) ==
            FindCirclePolygonContactPoint(circle.pos, GetVertexWorldPos(polygon))
    IN IF ((IsBox(bodyA) \/ IsIncline(bodyA)) /\ IsBall(bodyB))
          \/ (IsBall(bodyA) /\ (IsBox(bodyB) \/ IsIncline(bodyB)))
       THEN [contact1 |-> CirclePolygon(IF IsBall(bodyA) THEN bodyA ELSE bodyB,
                                        IF IsBall(bodyA) THEN bodyB ELSE bodyA),
             contactCount |-> 1]
       ELSE IF IsBall(bodyA) /\ IsBall(bodyB)
       THEN [contact1 |-> FindCircleCircleContactPoint(bodyA.pos, bodyA.radius, bodyB.pos),
             contactCount |-> 1]
       ELSE [contact1 |-> VZero, contactCount |-> 0]

\* the velocity of a body at a contact point: linearVel + rPerp * angularVel
PointVelocity(b, r) == VAdd(b.linearVel, VScale(Perp(r), b.angularVel))

\* the friction coefficients ResolveWithRotationAndFriction takes: those of
\* the Incline of the pair (the larger ones of two Inclines), else the
\* geometric means
CombinedFriction(bodyA, bodyB) ==
    IF IsIncline(bodyA) /\ IsIncline(bodyB)
    THEN [static  |-> Max2(bodyA.staticFriction, bodyB.staticFriction),
          kinetic |-> Max2(bodyA.kineticFriction, bodyB.kineticFriction)]
    ELSE IF IsIncline(bodyA)
    THEN [static |-> bodyA.staticFriction, kinetic |-> bodyA.kineticFriction]
    ELSE IF IsIncline(bodyB)
    THEN [static |-> bodyB.staticFriction, kinetic |-> bodyB.kineticFriction]
    ELSE [static  |-> ISqrt(bodyA.staticFriction * bodyB.staticFriction),
          kinetic |-> ISqrt(bodyA.kineticFriction * bodyB.kineticFriction)]

\* an impulse applied to a body at lever arm r, with sign -1 for body A and
\* +1 for body B: linearVel += impulse * (sign * invMass),
\* angularVel += sign * invInertia * Cross(r, impulse)
Impelled(b, r, impulse, sign) ==
    [b EXCEPT !.linearVel = VAdd(b.linearVel, VScale(impulse, sign * InvMass(b))),
              !.angularVel = b.angularVel + sign * AngularChange(b, Cross(r, impulse))]

\* AccumulateNormalImpulse / AccumulateFrictionImpulse on a body that is not Static
NormalAccumulated(b, impulse) ==
    IF b.bodyType = "Static" THEN b
    ELSE [b EXCEPT !.normalImpulseAccum = VAdd(b.normalImpulseAccum, impulse)]

FrictionAccumulated(b, impulse) ==
    IF b.bodyType = "Static" THEN b
    ELSE [b EXCEPT !.frictionImpulseAccum = VAdd(b.frictionImpulseAccum, impulse)]

\* denom of PASS 1 and PASS 2: invMass of both bodies plus the angular terms
\* along axis (the normal, or the tangent)
ImpulseDenom(bodyA, bodyB, ra, rb, axis) ==
    InvMass(bodyA) + InvMass(bodyB)
    + TimesInvInertia(bodyA, Dot(Perp(ra), axis))
    + TimesInvInertia(bodyB, Dot(Perp(rb), axis))

\* PASS 1 for the one contact: j, or 0 when the bodies are separating
NormalImpulse(bodyA, bodyB, normal, contact) ==
    Only({
    Only({
    Only({
        IF contactVelMag > 0 THEN 0
        ELSE FDiv(- FMul(Scale + Min2(bodyA.restitution, bodyB.restitution),
                         contactVelMag),
                  ImpulseDenom(bodyA, bodyB, ra, rb, normal))
        : contactVelMag \in {Dot(VSub(PointVelocity(bodyB, rb), PointVelocity(bodyA, ra)), normal)}})
        : rb \in {VSub(contact, bodyB.pos)}})
        : ra \in {VSub(contact, bodyA.pos)}})

\* the analytic static friction the stationary case accumulates for one body
AnalyticStaticFriction(body, normal, staticFriction) ==
    Only({
    Only({
    Only({
    Only({
        IF body.bodyType = "Static" THEN VZero
        ELSE IF Length(body.linearVel) > kRestVelThreshold * Scale THEN VZero
        ELSE IF gravTangMag = 0 THEN VZero
        ELSE VScale(VNeg(Normalize(gravTangential)),
                    Min2(gravTangMag, FMul(staticFriction, Abs(alongNormal))))
        : gravTangMag \in {Length(gravTangential)}})
        : gravTangential \in {VSub(gravForce, VScale(normal, alongNormal))}})
        : alongNormal \in {Dot(gravForce, normal)}})
        : gravForce \in {Vec(0, - FMul(body.mass, gPPM))}})

\* a variant: the slip-cancelling impulse whatever the normal impulse
CoulombUnclamped(jt, j, mu) == jt

\* the Coulomb friction cone: jt within mu_s * j, else the kinetic impulse
\* -(mu_k * j) along the tangent
CoulombClamped(jt, j, mu) ==
    IF Abs(jt) <= FMul(j, mu.static) THEN jt ELSE - FMul(mu.kinetic, j)

\* PASS 2 for the one contact, on the bodies as PASS 1 left them: the friction
\* impulse (zero in the stationary case and when j <= 0)
FrictionImpulse(bodyA, bodyB, normal, contact, j) ==
    Only({
    Only({
    Only({
    Only({
        IF j <= 0 \/ slide = VZero THEN VZero
        ELSE Only({
             Only({
             Only({
                 VScale(tangent, CoulombClamped(jt, j, mu))
                 : mu \in {CombinedFriction(bodyA, bodyB)}})
                 : jt \in {FDiv(- Dot(relativeVelocity, tangent),
                       ImpulseDenom(bodyA, bodyB, ra, rb, tangent))}})
                 : tangent \in {Normalize(slide)}})
        : slide \in {VSub(relativeVelocity, VScale(normal, Dot(relativeVelocity, normal)))}})
        : relativeVelocity \in {VSub(PointVelocity(bodyB, rb), PointVelocity(bodyA, ra))}})
        : rb \in {VSub(contact, bodyB.pos)}})
        : ra \in {VSub(contact, bodyA.pos)}})

\* CollisionSolver::ResolveWithRotationAndFriction for a manifold of one
\* contact: the two bodies afterwards
ResolveWithRotationAndFriction(bodyA, bodyB, normal, contact) ==
    Only({
    Only({
    Only({
    Only({
    Only({
    Only({
    Only({
    Only({
        IF j > 0 /\ slide = VZero
        THEN Only({
             <<FrictionAccumulated(a1, AnalyticStaticFriction(a1, normal, staticFriction)),
               FrictionAccumulated(b1, VNeg(AnalyticStaticFriction(b1, normal,
                                                                    staticFriction)))>>
                 : staticFriction \in {CombinedFriction(bodyA, bodyB).static}})
        ELSE Only({
             IF impulseFriction = VZero THEN <<a1, b1>>
             ELSE <<FrictionAccumulated(Impelled(a1, ra, impulseFriction, -1),
                                        VNeg(impulseFriction)),
                    FrictionAccumulated(Impelled(b1, rb, impulseFriction, 1),
                                        impulseFriction)>>
                 : impulseFriction \in {FrictionImpulse(a1, b1, normal, contact, j)}})
        : slide \in {VSub(rv, VScale(normal, Dot(rv, normal)))}})
        : rv \in {VSub(PointVelocity(b1, rb), PointVelocity(a1, ra))}})
        : b1 \in {NormalAccumulated(Impelled(bodyB, rb, impulse, 1), impulse)}})
        : a1 \in {NormalAccumulated(Impelled(bodyA, ra, impulse, -1), VNeg(impulse))}})
        : impulse \in {VScale(normal, j)}})
        : j \in {NormalImpulse(bodyA, bodyB, normal, contact)}})
        : rb \in {VSub(contact, bodyB.pos)}})
        : ra \in {VSub(contact, bodyA.pos)}})

\* CollisionSolver::ResolveIfColliding: the two bodies afterwards
ResolveIfColliding(bodyA, bodyB) ==
    Only({
        IF ~ hit.result THEN <<bodyA, bodyB>>
        ELSE Only({
             Only({
                 IF contacts.contactCount = 0 THEN sep
                 ELSE ResolveWithRotationAndFriction(sep[1], sep[2], hit.normal,
                                                     contacts.contact1)
                 : contacts \in {FindContactPoints(sep[1], sep[2])}})
                 : sep \in {SeparateBodies(bodyA, bodyB, VScale(hit.normal, hit.depth))}})
        : hit \in {Collide(bodyA, bodyB)}})

-----------------------------------------------------------------------------
(* Rigidbody::Update, BeginFrameForces, FinalizeForces *)

\* x * dtSeconds with dtSeconds = (deltaMs / 1000) / iterations
TimesDt(x, deltaCs, iters) == MulDiv(x, deltaCs, 1000 * Scale * iters)

\* (x * dtSeconds) * 0.5
TimesHalfDt(x, deltaCs, iters) == MulDiv(x, deltaCs, 2 * 1000 * Scale * iters)

\* std::fmod(x, 360)
Fmod360(x) == Sgn(x) * (Abs(x) % (360 * Scale))

\* Vec2::operator/ throws std::runtime_error on a factor equal to 0.0f:
\* netForce / mass in Rigidbody::Update
UpdateThrows(b) == b.bodyType = "Dynamic" /\ b.mass = 0

\* Rigidbody::Update: one sub-step of a body (gravity is the only force; the
\* drag force is zero while no body is dragged)
Integrated(b, deltaCs, iters) ==
    IF b.bodyType /= "Dynamic" THEN b
    ELSE LET n   == IF iters <= 0 THEN 1 ELSE iters
             acc == Vec(0, - gPPM)
             v1  == VAdd(b.linearVel, Vec(TimesHalfDt(acc.x, deltaCs, n),
                                          TimesHalfDt(acc.y, deltaCs, n)))
             p1  == VAdd(b.pos, Vec(TimesDt(v1.x, deltaCs, n), TimesDt(v1.y, deltaCs, n)))
             v2  == VAdd(v1, Vec(TimesHalfDt(acc.x, deltaCs, n),
                                 TimesHalfDt(acc.y, deltaCs, n)))
         IN [b EXCEPT !.linearAcc = acc, !.linearVel = v2, !.pos = p1,
                      !.rotation = Fmod360(b.rotation + TimesDt(b.angularVel, deltaCs, n)),
                      !.aabbUpdateRequired = TRUE]

\* Rigidbody::BeginFrameForces
BeginFrameForces(b) ==
    [b EXCEPT !.normalImpulseAccum = VZero, !.normalForce = VZero,
              !.frictionImpulseAccum = VZero, !.frictionForce = VZero]

\* accum / dtSeconds with dtSeconds = deltaMs / 1000
OverDt(x, deltaCs) == MulDiv(x, 1000 * Scale, deltaCs)

\* a variant: FinalizeForces divides whatever deltaMs is
FinalizeDividesAlways(deltaCs) == TRUE

\* if (deltaMs > 0.0f) of FinalizeForces
FinalizeDivides(deltaCs) == deltaCs > 0

\* normalImpulseAccum / dtSeconds throws when dtSeconds = deltaMs / 1000 is 0
FinalizeThrows(deltaCs) == FinalizeDivides(deltaCs) /\ deltaCs = 0

\* Rigidbody::FinalizeForces: the forces of the tick from the accumulated
\* impulses (the smoothed copies serve the display only)
FinalizeForces(b, deltaCs) ==
    IF FinalizeDivides(deltaCs)
    THEN [b EXCEPT !.normalForce = Vec(OverDt(b.normalImpulseAccum.x, deltaCs),
                                       OverDt(b.normalImpulseAccum.y, deltaCs)),
                   !.frictionForce = Vec(OverDt(b.frictionImpulseAccum.x, deltaCs),
                                         OverDt(b.frictionImpulseAccum.y, deltaCs))]
    ELSE [b EXCEPT !.normalForce = VZero, !.frictionForce = VZero]

-----------------------------------------------------------------------------
(* World::SweptContactCorrection *)

BINARY_STEPS == 10

\* tLow and tHigh are kept as numerators over 2^BINARY_STEPS, which the ten
\* halvings of the search leave exact
SweepDen == 1024

\* CONVERGENCE_DELTA (0.5 px) and the correction below which no sweep runs
\* (0.5 px), in units
CONVERGENCE_DELTA == Scale \div 2

MinCorrection == Scale \div 2

\* prevPos + displacement * t
SweptPos(prevPos, displacement, t) ==
    Vec(prevPos.x + MulDiv(displacement.x, t, SweepDen),
        prevPos.y + MulDiv(displacement.y, t, SweepDen))

\* the inner loop: the body, placed at pos, hits a Static body that is no Trigger
OverlapsStatic(bodies, i, pos) ==
    \E k \in 1..Len(bodies) :
        /\ k /= i
        /\ bodies[k].bodyType = "Static"
        /\ ~ IsTrigger(bodies[k])
        /\ Collide([bodies[i] EXCEPT !.pos = pos], bodies[k]).result

\* a variant: the search waits until the two ends of the bracket are equal
\* and gives up only after twice BINARY_STEPS
SweepEndsConverged(step, width) ==
    step >= 2 * BINARY_STEPS \/ width <= 0

\* the two ways out of the loop of the binary search: step has reached
\* BINARY_STEPS, or the bracket (width = (tHigh - tLow) * dispLen) is
\* narrower than CONVERGENCE_DELTA
SweepEnds(step, width) ==
    step >= BINARY_STEPS \/ width < CONVERGENCE_DELTA * SweepDen

\* the binary search from step on: the final tLow, and the number of times
\* the body of the loop has run
RECURSIVE SweepSearch(_, _, _, _, _, _, _, _)
SweepSearch(bodies, i, prevPos, displacement, dispLen, tLow, tHigh, step) ==
    IF SweepEnds(step, (tHigh - tLow) * dispLen) THEN [tLow |-> tLow, steps |-> step]
    ELSE Only({
         Only({
             SweepSearch(bodies, i, prevPos, displacement, dispLen,
                         IF overlapsStatic THEN tLow ELSE tMid,
                         IF overlapsStatic THEN tMid ELSE tHigh, step + 1)
             : overlapsStatic \in {OverlapsStatic(bodies, i, SweptPos(prevPos, displacement, tMid))}})
             : tMid \in {(tLow + tHigh) \div 2}})

\* whether SweptContactCorrection passes its three early returns and moves
\* the body
SweepRuns(body, prevPos, integratedPos) ==
    /\ body.bodyType = "Dynamic"
    /\ Length(VSub(body.pos, integratedPos)) >= MinCorrection
    /\ Length(VSub(integratedPos, prevPos)) > (Scale - 1) \div 1000

\* World::SweptContactCorrection on body i: the body afterwards
SweptContactCorrection(bodies, i, prevPos, integratedPos) ==
    IF ~ SweepRuns(bodies[i], prevPos, integratedPos) THEN bodies[i]
    ELSE Only({
         Only({
         Only({
         Only({
         Only({
         Only({
             [bodies[i] EXCEPT
                !.pos = SweptPos(prevPos, displacement, tLow),
                !.aabbUpdateRequired = TRUE,
                !.linearVel = IF velIntoSurface < 0
                              THEN VSub(bodies[i].linearVel,
                                        VScale(surfaceNormal, velIntoSurface))
                              ELSE bodies[i].linearVel]
             : velIntoSurface \in {Dot(bodies[i].linearVel, surfaceNormal)}})
             : surfaceNormal \in {Vec(FDiv(solverCorrection.x, correctionMag),
                  FDiv(solverCorrection.y, correctionMag))}})
             : tLow \in {SweepSearch(bodies, i, prevPos, displacement, Length(displacement),
                          0, SweepDen, 0).tLow}})
             : displacement \in {VSub(integratedPos, prevPos)}})
             : correctionMag \in {Length(solverCorrection)}})
             : solverCorrection \in {VSub(bodies[i].pos, integratedPos)}})

-----------------------------------------------------------------------------
(* World::RemoveObjects and World::UpdateTriggerCollisions *)

\* World::viewBottom, in pixels
viewBottom == -10000

\* the index the loop of RemoveObjects goes on with after an erase at i, had
\* it been advanced as after a kept body
AfterEraseAdvanced(i) == i + 1

\* the index the loop of RemoveObjects goes on with after an erase at i
AfterErase(i) == i

\* bodies without the one at index i
Erased(bodies, i) == [k \in 1..(Len(bodies) - 1) |-> IF k < i THEN bodies[k] ELSE bodies[k + 1]]

\* the result of the rest of a loop, with the step that led to it counted
OneMoreStep(r) == [r EXCEPT !.steps = @ + 1]

\* the loop of RemoveObjects from index i on: the list and the two handles
\* at the end (a handle to an erased body is set to nullptr, here 0), and the
\* number of times the body of the loop has run
RECURSIVE RemoveFrom(_, _, _, _)
RemoveFrom(bodies, i, selected, dragged) ==
    IF i > Len(bodies)
    THEN [objects |-> bodies, selectedBody |-> selected, draggedBody |-> dragged,
          steps |-> 0]
    ELSE IF GetAABB(bodies[i]).max.y < viewBottom * Scale
    THEN OneMoreStep(RemoveFrom(Erased(bodies, i), AfterErase(i),
                                IF selected = bodies[i].id THEN 0 ELSE selected,
                                IF dragged = bodies[i].id THEN 0 ELSE dragged))
    ELSE OneMoreStep(RemoveFrom([bodies EXCEPT ![i] = AABBCached(bodies[i])], i + 1,
                                selected, dragged))

\* World::RemoveObjects
RemoveObjects(bodies, selected, dragged) == RemoveFrom(bodies, 1, selected, dragged)

\* the first body other than trigger i that Collide reports against it
TriggerHit(bodies, i) ==
    \E j \in 1..Len(bodies) : j /= i /\ Collide(bodies[i], bodies[j]).result

\* World::UpdateTriggerCollisions: the bodies afterwards
UpdateTriggerCollisions(bodies) ==
    [i \in 1..Len(bodies) |->
        IF IsTrigger(bodies[i])
        THEN Only({
                 [bodies[i] EXCEPT !.isColliding = hit, !.wasCollidingLastFrame = hit]
                 : hit \in {TriggerHit(bodies, i)}})
        ELSE bodies[i]]

\* a variant: a PauseSimulation trigger pauses whenever it is colliding
TriggerPausesWhileInside(bodies) ==
    \E i \in 1..Len(bodies) :
        /\ IsTrigger(bodies[i])
        /\ TriggerHit(bodies, i)
        /\ bodies[i].action = "PauseSimulation"

\* the PauseSimulation triggers that collide with another body now
PausersHit(bodies) ==
    { bodies[i].id : i \in { k \in 1..Len(bodies) :
          /\ IsTrigger(bodies[k])
          /\ bodies[k].action = "PauseSimulation"
          /\ TriggerHit(bodies, k) } }

\* whether UpdateTriggerCollisions sets settings->paused: a PauseSimulation
\* trigger is entered (colliding now, not colliding last frame)
TriggerPauses(bodies) ==
    \E i \in 1..Len(bodies) :
        /\ IsTrigger(bodies[i])
        /\ TriggerHit(bodies, i)
        /\ ~ bodies[i].wasCollidingLastFrame
        /\ bodies[i].action = "PauseSimulation"

-----------------------------------------------------------------------------
(* World::Update as a sequence of steps.  pc names the statement Update     *)
(* stands at; the loops over the bodies advance one body per step.          *)

\* the positions of all bodies (what Update copies into prevPositions and
\* integratedPositions)
Positions(bodies) == [i \in 1..Len(bodies) |-> bodies[i].pos]

\* a condition of the sub-step loop that lets one more sub-step through
MoreSubStepsInclusive(cur, iters) == cur <= iters

\* the condition of the sub-step loop: currIteration < iterations
MoreSubSteps(cur, iters) == cur < iters

\* the body of the loop over the pairs for pair <<a, b>>: the bodies after
\* ResolveIfColliding, after the swept correction of a and after that of b
SolvePair(bodies, a, b, prevPos, integratedPos) ==
    IF IsTrigger(bodies[a]) \/ IsTrigger(bodies[b])
    THEN [resolved |-> bodies, sweptA |-> bodies, sweptB |-> bodies]
    ELSE Only({
         Only({
         Only({
             [resolved |-> o1, sweptA |-> o2,
              sweptB |-> [o2 EXCEPT ![b] = SweptContactCorrection(o2, b, prevPos[b],
                                                                  integratedPos[b])]]
             : o2 \in {[o1 EXCEPT ![a] = SweptContactCorrection(o1, a, prevPos[a],
                                                       integratedPos[a])]}})
             : o1 \in {[bodies EXCEPT ![a] = res[1], ![b] = res[2]]}})
             : res \in {ResolveIfColliding(bodies[a], bodies[b])}})

\* the bodies SweptContactCorrection relocates while pair <<a, b>> is handled,
\* solved being SolvePair's result for the pair
SweptInPair(bodies, a, b, prevPos, integratedPos, solved) ==
    IF IsTrigger(bodies[a]) \/ IsTrigger(bodies[b]) THEN {}
    ELSE (IF SweepRuns(solved.resolved[a], prevPos[a], integratedPos[a])
          THEN {bodies[a].id} ELSE {})
         \cup
         (IF SweepRuns(solved.sweptA[b], prevPos[b], integratedPos[b])
          THEN {bodies[b].id} ELSE {})

\* the bodies of pair <<a, b>> whose position or velocity differs between the
\* body lists before and after the pair was handled
MovedInPair(before, after, a, b) ==
    { before[k].id : k \in { k \in {a, b} :
          \/ before[k].pos # after[k].pos
          \/ before[k].linearVel # after[k].linearVel
          \/ before[k].angularVel # after[k].angularVel } }

-----------------------------------------------------------------------------
(* Specification SpecStep: a world built from one of a few scenes is        *)
(* stepped by World::Update, tick after tick.                               *)

\* at most this many ticks are run on a scene
MaxTicks == 2

\* a spawned ball, box, trigger and cannon; positions, velocities and sizes
\* in units (1/100 px, 1/100 px/s)
StepBall(id, x, y, vx, vy, r) ==
    Rigidbody(id, "Ball", "Dynamic", Vec(x, y), Vec(vx, vy), r, 0, 0, 40)

StepBox(id, x, y, w, h) ==
    Rigidbody(id, "Box", "Static", Vec(x, y), VZero, 0, w, h, 40)

StepTrigger(id, x, y, w, h, action) ==
    [Rigidbody(id, "Trigger", "Static", Vec(x, y), VZero, 0, w, h, 40)
        EXCEPT !.action = action]

StepCannon(id, x, y) ==
    Rigidbody(id, "Cannon", "Static", Vec(x, y), VZero, 0, 0, 0, 40)

\* a ball of radius 20 px, 40 px left of a wall 10 px thick, at 3000 px/s
\* towards it (50 px per 60 Hz tick)
SceneWallSlow ==
    << StepBall(1, -6000, 0, 300000, 0, 2000), StepBox(2, 500, 0, 1000, 50000) >>

\* a ball of radius 1 px left of a wall 1 px thick, at 40000 px/s towards it
\* (667 px per 60 Hz tick), from two starting distances
SceneWallFast(x0) ==
    << StepBall(1, x0, 0, 4000000, 0, 100), StepBox(2, 50, 0, 100, 50000) >>

\* a ball of radius 1 px left of a wall 400 px thick, at 2.5 million px/s
\* towards it (325 px per sub-step of a 60 Hz tick of 128 sub-steps)
SceneWallDeep ==
    << StepBall(1, -310, 0, 250000000, 0, 100), StepBox(2, 20000, 0, 40000, 50000) >>

\* a ball of radius 20 px spawned 3 px deep in a floor, sinking at 100 px/s
SceneFloorEmbedded ==
    << StepBox(1, 0, -500, 40000, 1000), StepBall(2, 0, 1700, 0, -10000, 2000) >>

\* a ball of radius 20 px dropping on a floor from 1 px above it at 600 px/s
SceneFloorDrop ==
    << StepBox(1, 0, -500, 40000, 1000), StepBall(2, 0, 2100, 0, -60000, 2000) >>

\* bodies around viewBottom (y = -10000 px): above it, with the top exactly on
\* it, below it (two in a row), crossing it during the tick
SceneBelowView ==
    << StepBall(1, 0, 5000, 0, 0, 2000),
       StepBox(2, 30000, -1001000, 4000, 2000),
       StepBall(3, 60000, -1003000, 0, 0, 2000),
       StepBall(4, 90000, -1003000, 0, 0, 2000),
       StepBox(5, 120000, -1005000, 4000, 2000),
       StepBall(6, 150000, -1001900, 0, -60000, 2000),
       StepBall(7, 180000, 5000, 0, 0, 2000) >>

\* a ball entering a trigger that pauses the simulation
SceneTrigger ==
    << StepTrigger(1, 0, 0, 10000, 10000, "PauseSimulation"),
       StepBall(2, -7500, 0, 60000, 0, 2000) >>

\* a ball on top of a cannon
SceneCannon ==
    << StepCannon(1, 0, 0), StepBall(2, 3000, 0, -10000, 0, 2000) >>

\* two balls of radius 20 px overlapping by 1 px, approaching each other
SceneTwoBalls ==
    << StepBall(1, 0, 0, 20000, 0, 2000), StepBall(2, 3900, 0, -20000, 0, 2000) >>

SceneOneBall == << StepBall(1, 0, 0, 20000, 0, 2000) >>

\* a ball dropping on a Static floor that was constructed with a velocity of
\* 50 px/s and an angular velocity
SceneMovingFloor ==
    << [StepBox(1, 0, -500, 40000, 1000)
           EXCEPT !.linearVel = Vec(5000, 0), !.angularVel = 30 * Scale],
       StepBall(2, 0, 2100, 0, -60000, 2000) >>

\* two balls of radius 20 px overlapping by 2 px, approaching each other, one
\* constructed with mass 0 (which the constructor makes 1 kg), one of 4 kg
SceneTwoMasses ==
    << [StepBall(1, 0, 0, 20000, 0, 2000) EXCEPT !.mass = ConstructedMass(0)],
       [StepBall(2, 3800, 0, -20000, 0, 2000) EXCEPT !.mass = ConstructedMass(4 * Scale)] >>

\* a ball of radius 20 px sliding at 600 px/s along a floor and dropping on
\* it at 600 px/s, with a second ball up and to the right of it: the boxes
\* around the two balls overlap, the balls are 9.5 px apart
SceneFloorNeighbour ==
    << StepBox(1, 0, -500, 40000, 1000), StepBall(2, 0, 2100, 60000, -60000, 2000),
       StepBall(3, 3500, 5600, 60000, -60000, 2000) >>

\* the same ball and floor with a cannon up and to the right of the ball,
\* whose box (130 px by 100 px) overlaps the box around the ball
SceneFloorCannon ==
    << StepBox(1, 0, -500, 40000, 1000), StepBall(2, 0, 2100, 60000, -60000, 2000),
       StepCannon(3, 6000, 5000) >>

\* a ball dropping on a floor through a trigger that does nothing
SceneFloorTrigger ==
    << StepBox(1, 0, -500, 40000, 1000), StepBall(2, 0, 2100, 60000, -60000, 2000),
       StepTrigger(3, 0, 2000, 10000, 10000, "DoNothing") >>

StepScenes ==
    { SceneFloorNeighbour, SceneFloorCannon, SceneFloorTrigger, SceneWallSlow, SceneWallFast(-310), SceneWallFast(-1000), SceneFloorEmbedded,
      SceneFloorDrop, SceneBelowView, SceneTrigger, SceneCannon, SceneTwoBalls,
      SceneOneBall, SceneMovingFloor, SceneWallDeep, SceneTwoMasses, << >> }

\* the tick durations Engine::Update passes: 0 while paused, 16.67 ms when
\* live, nudged after a spawn or stepping one frame
StepDeltas == {0, 1667}

\* the iteration count main passes to Engine::RunFrame
StepRequested == {10}

\* the observations of a tick, reset when World::Update is entered
TickStart(bodies, ticks) ==
    [ticks |-> ticks, lastOp |-> "enter", begun |-> 0,
     updates |-> [i \in 1..Len(bodies) |-> 0], builds |-> 0, finalized |-> 0,
     start |-> bodies, preGC |-> << >>, hits |-> {}, swept |-> {},
     collided |-> FALSE, moved |-> {},
     overlapped |-> {}, before |-> {}, fired |-> FALSE, wasPaused |-> FALSE,
     preHandles |-> <<0, 0>>]

InitStep ==
    /\ objects \in StepScenes
    /\ recording \in BOOLEAN
    /\ selectedBody \in {0, 3}
    /\ selectedBody = 3 => Len(objects) >= 3
    /\ draggedBody = 0
    /\ pairs = << >>
    /\ pc = "idle"
    /\ deltaMs = 0
    /\ requested = 0
    /\ iterations = 0
    /\ currIteration = 0
    /\ pairIdx = 0
    /\ bodyIdx = 0
    /\ prevPositions = << >>
    /\ integratedPositions = << >>
    /\ snap = << >>
    /\ paused = FALSE
    /\ TimeIdle
    /\ aux = [TickStart(<< >>, 0) EXCEPT !.lastOp = "none"]

\* iterations = ComputeAdaptiveIterations(deltaMs, iterations), for the
\* first maxTicks calls of Update
UpdateEnterWithin(maxTicks) ==
    /\ pc = "idle"
    /\ aux.ticks < maxTicks
    /\ \E d \in StepDeltas, r \in StepRequested :
          /\ deltaMs' = d
          /\ requested' = r
          /\ iterations' \in ComputeAdaptiveIterations(objects, deltaMs', r)
    /\ objects' = AfterAdaptive(objects)
    /\ pc' = "begin"
    /\ bodyIdx' = 1
    /\ aux' = [TickStart(objects', aux.ticks)
                  EXCEPT !.before = aux.overlapped, !.wasPaused = paused]
    /\ UNCHANGED <<pairs, recording, selectedBody, draggedBody, currIteration, pairIdx,
                   prevPositions, integratedPositions, snap, paused>>
    /\ UNCHANGED timeVars

UpdateEnter == UpdateEnterWithin(MaxTicks)

\* the loop calling BeginFrameForces, then the construction of prevPositions
UpdateBeginForces ==
    /\ pc = "begin"
    /\ IF bodyIdx <= Len(objects)
       THEN /\ objects' = [objects EXCEPT ![bodyIdx] = BeginFrameForces(@)]
            /\ bodyIdx' = bodyIdx + 1
            /\ aux' = [aux EXCEPT !.lastOp = "begin", !.begun = @ + 1]
            /\ UNCHANGED <<pc, prevPositions, currIteration>>
       ELSE /\ prevPositions' = [i \in 1..Len(objects) |-> VZero]
            /\ currIteration' = 0
            /\ pc' = "substep"
            /\ UNCHANGED <<objects, bodyIdx, aux>>
    /\ UNCHANGED <<pairs, recording, selectedBody, draggedBody, deltaMs, requested,
                   iterations, pairIdx, integratedPositions, snap, paused>>
    /\ UNCHANGED timeVars

\* the head of the sub-step loop and the recording of prevPositions
UpdateSubStep ==
    /\ pc = "substep"
    /\ IF MoreSubSteps(currIteration, iterations)
       THEN /\ prevPositions' = Positions(objects)
            /\ bodyIdx' = 1
            /\ pc' = "integrate"
       ELSE /\ pc' = "triggers"
            /\ UNCHANGED <<prevPositions, bodyIdx>>
    /\ UNCHANGED <<objects, pairs, recording, selectedBody, draggedBody, deltaMs,
                   requested, iterations, currIteration, pairIdx, integratedPositions,
                   snap, paused, aux>>
    /\ UNCHANGED timeVars

\* the loop calling Rigidbody::Update, then the recording of integratedPositions;
\* an exception thrown by a division leaves Update (pc = "thrown")
UpdateIntegrate ==
    /\ pc = "integrate"
    /\ IF bodyIdx <= Len(objects) /\ UpdateThrows(objects[bodyIdx])
       THEN /\ pc' = "thrown"
            /\ UNCHANGED <<objects, bodyIdx, aux, integratedPositions>>
       ELSE IF bodyIdx <= Len(objects)
       THEN /\ objects' = [objects EXCEPT ![bodyIdx] = Integrated(@, deltaMs, iterations)]
            /\ bodyIdx' = bodyIdx + 1
            /\ aux' = [aux EXCEPT !.lastOp = "integrate", !.updates[bodyIdx] = @ + 1]
            /\ UNCHANGED <<pc, integratedPositions>>
       ELSE /\ integratedPositions' = Positions(objects)
            /\ pc' = "build"
            /\ UNCHANGED <<objects, bodyIdx, aux>>
    /\ UNCHANGED <<pairs, recording, selectedBody, draggedBody, deltaMs, requested,
                   iterations, currIteration, pairIdx, prevPositions, snap, paused>>
    /\ UNCHANGED timeVars

\* collisionPipeline.BuildPairs(objects)
UpdateBuildPairs ==
    /\ pc = "build"
    /\ \E rev \in BOOLEAN : pairs' = BuildPairs(objects, pairs, rev)
    /\ objects' = IF Len(objects) < 2 THEN objects ELSE AllCached(objects)
    /\ pairIdx' = 1
    /\ pc' = "solve"
    /\ aux' = [aux EXCEPT !.lastOp = "build", !.builds = @ + 1]
    /\ UNCHANGED <<recording, selectedBody, draggedBody, deltaMs, requested, iterations,
                   currIteration, bodyIdx, prevPositions, integratedPositions, snap,
                   paused>>
    /\ UNCHANGED timeVars

\* the loop over the pairs: ResolveIfColliding and the two swept corrections
\* of one pair; past the last pair the sub-step ends
UpdateSolve ==
    /\ pc = "solve"
    /\ IF pairIdx <= Len(pairs)
       THEN \E solved \in {SolvePair(objects, pairs[pairIdx][1], pairs[pairIdx][2],
                                      prevPositions, integratedPositions)} :
               LET a == pairs[pairIdx][1]
                   b == pairs[pairIdx][2]
                   solid == ~ (IsTrigger(objects[a]) \/ IsTrigger(objects[b]))
               IN /\ objects' = solved.sweptB
                  /\ pairIdx' = pairIdx + 1
                  /\ aux' = [aux EXCEPT
                               !.lastOp = "solve",
                               !.hits = IF solid /\ Collide(objects[a], objects[b]).result
                                        THEN @ \cup {{objects[a].id, objects[b].id}}
                                        ELSE @,
                               !.swept = SweptInPair(objects, a, b, prevPositions,
                                                     integratedPositions, solved),
                               !.collided = solid /\ Collide(objects[a], objects[b]).result,
                               !.moved = MovedInPair(objects, solved.sweptB, a, b)]
                  /\ UNCHANGED <<pc, currIteration>>
       ELSE /\ currIteration' = currIteration + 1
            /\ pc' = "substep"
            /\ aux' = [aux EXCEPT !.swept = {}, !.collided = FALSE, !.moved = {}]
            /\ UNCHANGED <<objects, pairIdx>>
    /\ UNCHANGED <<pairs, recording, selectedBody, draggedBody, deltaMs, requested,
                   iterations, bodyIdx, prevPositions, integratedPositions, snap, paused>>
    /\ UNCHANGED timeVars

\* UpdateTriggerCollisions()
UpdateTriggers ==
    /\ pc = "triggers"
    /\ objects' = UpdateTriggerCollisions(objects)
    /\ paused' = (paused \/ TriggerPauses(objects))
    /\ bodyIdx' = 1
    /\ pc' = "finalize"
    /\ aux' = [aux EXCEPT !.lastOp = "triggers",
                          !.overlapped = PausersHit(objects),
                          !.fired = TriggerPauses(objects)]
    /\ UNCHANGED <<pairs, recording, selectedBody, draggedBody, deltaMs, requested,
                   iterations, currIteration, pairIdx, prevPositions,
                   integratedPositions, snap>>
    /\ UNCHANGED timeVars

\* the loop calling FinalizeForces; an exception thrown by a division leaves
\* Update (pc = "thrown")
UpdateFinalize ==
    /\ pc = "finalize"
    /\ IF bodyIdx <= Len(objects) /\ FinalizeThrows(deltaMs)
       THEN /\ pc' = "thrown"
            /\ UNCHANGED <<objects, bodyIdx, aux>>
       ELSE IF bodyIdx <= Len(objects)
       THEN /\ objects' = [objects EXCEPT ![bodyIdx] = FinalizeForces(@, deltaMs)]
            /\ bodyIdx' = bodyIdx + 1
            /\ aux' = [aux EXCEPT !.lastOp = "finalize", !.finalized = @ + 1]
            /\ UNCHANGED pc
       ELSE /\ pc' = "gc"
            /\ UNCHANGED <<objects, bodyIdx, aux>>
    /\ UNCHANGED <<pairs, recording, selectedBody, draggedBody, deltaMs, requested,
                   iterations, currIteration, pairIdx, prevPositions,
                   integratedPositions, snap, paused>>
    /\ UNCHANGED timeVars

\* if (!settings->recording) RemoveObjects(selectedBody, draggedBody); return
UpdateRemove ==
    /\ pc = "gc"
    /\ LET after == IF recording
                    THEN [objects |-> objects, selectedBody |-> selectedBody,
                          draggedBody |-> draggedBody]
                    ELSE RemoveObjects(objects, selectedBody, draggedBody)
       IN /\ objects' = after.objects
          /\ selectedBody' = after.selectedBody
          /\ draggedBody' = after.draggedBody
    /\ pc' = "idle"
    /\ aux' = [aux EXCEPT !.lastOp = "gc", !.preGC = objects, !.ticks = @ + 1,
                          !.preHandles = <<selectedBody, draggedBody>>]
    /\ UNCHANGED <<pairs, recording, deltaMs, requested, iterations, currIteration,
                   pairIdx, bodyIdx, prevPositions, integratedPositions, snap, paused>>
    /\ UNCHANGED timeVars

NextStep ==
    \/ UpdateEnter
    \/ UpdateBeginForces
    \/ UpdateSubStep
    \/ UpdateIntegrate
    \/ UpdateBuildPairs
    \/ UpdateSolve
    \/ UpdateTriggers
    \/ UpdateFinalize
    \/ UpdateRemove

SpecStep == InitStep /\ [][NextStep]_vars

-----------------------------------------------------------------------------
(* Properties of World::Update *)

Ids(bodies) == [i \in 1..Len(bodies) |-> bodies[i].id]

\* the body with the given id among bodies, if any
WithId(bodies, id) == {bodies[i] : i \in {k \in 1..Len(bodies) : bodies[k].id = id}}

TickDone == pc = "idle" /\ aux.lastOp = "gc"

\* whether the body's AABB top is not below viewBottom, or recording is on
KeepsBody(b) == recording \/ ComputeAABB(b).max.y >= viewBottom * Scale

Survivors(bodies) == SelectSeq(bodies, KeepsBody)

\* C8: a tick removes exactly the bodies whose AABB top is below viewBottom at
\* the end of the tick, and only while recording is off: the list after the
\* tick is the list before the removal without those bodies, in the same
\* order; no body leaves or changes place earlier in the tick; while
\* recording is on the list keeps its bodies and their order.
C8_RemovalPolicy ==
    /\ TickDone =>
          /\ Ids(objects) = Ids(Survivors(aux.preGC))
          /\ objects = [i \in 1..Len(Survivors(aux.preGC)) |->
                           AABBCached(Survivors(aux.preGC)[i])]
                \/ (recording /\ objects = aux.preGC)
          /\ Ids(aux.preGC) = Ids(aux.start)
          /\ recording => Ids(objects) = Ids(aux.start)
    /\ pc /= "idle" => Ids(objects) = Ids(aux.start)

\* a tick has removed two bodies in a row and a body that went below
\* viewBottom during the tick, and kept the one whose top is on viewBottom
C8_Witness ==
    /\ TickDone
    /\ ~ recording
    /\ Ids(aux.preGC) = <<1, 2, 3, 4, 5, 6, 7>>
    /\ Ids(objects) = <<1, 2, 7>>
    /\ \E b \in WithId(aux.start, 6) : KeepsBody(b)
    /\ selectedBody = 0

\* a tick with recording on has kept a body below viewBottom
C8_WitnessRecording ==
    /\ TickDone
    /\ recording
    /\ \E i \in 1..Len(objects) : ComputeAABB(objects[i]).max.y < viewBottom * Scale

AllUpdated(n) == \A i \in 1..Len(objects) : aux.updates[i] = n

\* C9: in every tick BeginFrameForces has run for all bodies before any body
\* is integrated; the tick runs exactly N sub-steps, N the adaptive iteration
\* count; in sub-step k every body is integrated before the k-th BuildPairs,
\* which comes before any pair of the sub-step is solved and swept;
\* FinalizeForces runs only after the N-th sub-step, and the removal of
\* off-screen bodies is the last operation of the tick.
C9_TickOrder ==
    /\ pc /= "idle" => iterations \in ComputeAdaptiveIterations(aux.start, deltaMs, requested)
    /\ pc = "begin" => AllUpdated(0) /\ aux.builds = 0 /\ aux.finalized = 0
                       /\ aux.begun = bodyIdx - 1
    /\ pc \in {"substep", "integrate", "build", "solve", "triggers", "finalize", "gc"}
          => aux.begun = Len(objects)
    /\ pc = "substep" => AllUpdated(currIteration) /\ aux.builds = currIteration
                         /\ currIteration <= iterations
    /\ pc = "integrate" =>
          /\ \A i \in 1..Len(objects) :
                aux.updates[i] = currIteration + (IF i < bodyIdx THEN 1 ELSE 0)
          /\ aux.builds = currIteration
          /\ currIteration < iterations
    /\ pc = "build" => AllUpdated(currIteration + 1) /\ aux.builds = currIteration
    /\ pc = "solve" => AllUpdated(currIteration + 1) /\ aux.builds = currIteration + 1
    /\ pc \in {"begin", "substep", "integrate", "build", "solve", "triggers"}
          => aux.finalized = 0
    /\ pc \in {"triggers", "finalize", "gc"} \/ TickDone
          => aux.builds = iterations /\ \A i \in 1..Len(aux.updates) : aux.updates[i] = iterations
    /\ pc = "finalize" => aux.finalized = bodyIdx - 1
    /\ pc = "gc" => aux.finalized = Len(objects)
    /\ aux.lastOp = "gc" <=> (pc = "idle" /\ aux.ticks > 0)
    /\ TickDone => aux.finalized = Len(aux.preGC) /\ aux.begun = Len(aux.preGC)

\* a tick of more sub-steps than requested, with a collision solved, is over
C9_Witness ==
    /\ TickDone
    /\ iterations > requested
    /\ aux.builds = iterations
    /\ Len(aux.preGC) >= 2
    /\ aux.hits /= {}

\* position, rotation and velocities of a body
Motion(b) == <<b.pos, b.rotation, b.linearVel, b.angularVel>>

\* the Static bodies of the list
Statics(bodies) == { i \in 1..Len(bodies) : bodies[i].bodyType = "Static" }

\* C17: every Static body has the position, rotation, linear velocity and
\* angular velocity it had when the tick began, at every point of the tick and
\* after it: integration, separation, the impulses and the swept correction
\* do not alter a Static body
C17_StaticFixed ==
    aux.lastOp # "none" =>
        \A i \in Statics(objects) :
            \E k \in Statics(aux.start) :
                /\ aux.start[k].id = objects[i].id
                /\ Motion(aux.start[k]) = Motion(objects[i])

\* a tick is over in which a ball hit a Static box that has velocities of its
\* own, and was relocated by the swept correction or pushed out
C17_Witness ==
    /\ TickDone
    /\ deltaMs > 0
    /\ aux.hits /= {}
    /\ \E i \in Statics(objects) :
          /\ objects[i].linearVel # VZero
          /\ objects[i].angularVel # 0
    /\ \E i \in 1..Len(objects) :
          /\ objects[i].bodyType = "Dynamic"
          /\ \E k \in 1..Len(aux.start) :
                /\ aux.start[k].id = objects[i].id
                /\ aux.start[k].linearVel.y < 0
                /\ objects[i].linearVel.y > 0

\* whether the ball with centre pos and the given radius overlaps the
\* axis-aligned box: the point of the box closest to the centre is nearer
\* than the radius
BallOverlapsBox(pos, radius, box) ==
    LET dx == pos.x - Max2(box.pos.x - box.width \div 2, Min2(pos.x, box.pos.x + box.width \div 2))
        dy == pos.y - Max2(box.pos.y - box.height \div 2, Min2(pos.y, box.pos.y + box.height \div 2))
    IN /\ Abs(dx) < radius
       /\ Abs(dy) < radius
       /\ dx * dx + dy * dy < radius * radius

\* the depth by which the ball overlaps the geometry of a Static box
OverlapsStaticGeometry(bodies, i) ==
    \E k \in 1..Len(bodies) :
        /\ k /= i
        /\ bodies[k].bodyType = "Static"
        /\ IsBox(bodies[k])
        /\ IsBall(bodies[i])
        /\ BallOverlapsBox(bodies[i].pos, bodies[i].radius, bodies[k])

\* C3: a body that SweptContactCorrection has just relocated does not overlap
\* the geometry of any Static non-trigger body.
C3_SweptClear ==
    \A i \in 1..Len(objects) :
        (pc = "solve" /\ objects[i].id \in aux.swept) => ~ OverlapsStaticGeometry(objects, i)

\* a relocated body is clear of the static bodies
C3_SweptSomewhereClear ==
    \E i \in 1..Len(objects) :
        /\ pc = "solve"
        /\ objects[i].id \in aux.swept
        /\ ~ OverlapsStaticGeometry(objects, i)
        /\ \E k \in 1..Len(objects) : objects[k].bodyType = "Static" /\ IsBox(objects[k])

\* whether ball b, at the start of a tick of deltaCs, is left of wall w and
\* moving towards it so fast that it travels more than its diameter in the
\* tick and would, unobstructed, end wholly beyond the wall
TowardsWall(b, w, deltaCs) ==
    /\ IsBall(b) /\ b.bodyType = "Dynamic"
    /\ IsBox(w) /\ w.bodyType = "Static"
    /\ w.width <= 10 * Scale
    /\ b.pos.x + b.radius <= w.pos.x - w.width \div 2
    /\ Abs(b.pos.y - w.pos.y) < w.height \div 4
    /\ b.linearVel.x > 0
    /\ TimesDt(b.linearVel.x, deltaCs, 1) > 2 * b.radius
    /\ b.pos.x + TimesDt(b.linearVel.x, deltaCs, 1) - b.radius > w.pos.x + w.width \div 2

\* C2: a ball that starts a tick moving towards a thin static wall, fast
\* enough to travel more than its diameter in the tick, has been detected as
\* colliding with the wall in some sub-step and is still on its side of the
\* wall when the tick is over.
C2_NoTunnel ==
    TickDone =>
        \A i \in 1..Len(aux.start), k \in 1..Len(aux.start) :
            TowardsWall(aux.start[i], aux.start[k], deltaMs) =>
                /\ {aux.start[i].id, aux.start[k].id} \in aux.hits
                /\ \A b \in WithId(objects, aux.start[i].id) : b.pos.x < aux.start[k].pos.x

\* C2 for the balls whose sub-step count stays below MAX_PHYSICS_ITERATIONS
C2_NoTunnelUncapped ==
    (TickDone /\ iterations < MAX_PHYSICS_ITERATIONS) => C2_NoTunnel

\* a tick in which a ball moved fast towards a wall is over
C2_WitnessFast ==
    /\ TickDone
    /\ \E i \in 1..Len(aux.start), k \in 1..Len(aux.start) :
          TowardsWall(aux.start[i], aux.start[k], deltaMs)

-----------------------------------------------------------------------------
(* Recorder and the time control of Engine::Update: per frame either the    *)
(* rewind branch, the scrub branch or the live branch (Recorder::Record,    *)
(* World::Update, CheckSpawning) runs.                                      *)

\* Recorder::MAX_ENTRIES
MAX_ENTRIES == 10000

\* a variant: the oldest entry is dropped only from a history that is over
\* its capacity
RecordWithinLate(capacity, hist, current) ==
    Append(IF Len(hist) > capacity THEN Tail(hist) ELSE hist, current)

\* the body of Recorder::Record for a capacity: a full history drops its
\* oldest entry first.  KEYFRAME_EVERY is 1, so frameCounter % KEYFRAME_EVERY
\* is 0, every entry is a keyframe and holds current itself.
RecordWithin(capacity, hist, current) ==
    Append(IF Len(hist) >= capacity THEN Tail(hist) ELSE hist, current)

\* Recorder::Record
Record(hist, current) == RecordWithin(MAX_ENTRIES, hist, current)

\* a variant: the oldest entry is popped
RewindOldest(hist, out) ==
    IF hist = << >> THEN [result |-> FALSE, out |-> out, history |-> hist]
    ELSE [result |-> TRUE, out |-> hist[1], history |-> Tail(hist)]

\* Recorder::Rewind(out): the return value, out and the history afterwards
Rewind(hist, out) ==
    IF hist = << >> THEN [result |-> FALSE, out |-> out, history |-> hist]
    ELSE [result |-> TRUE, out |-> hist[Len(hist)],
          history |-> SubSeq(hist, 1, Len(hist) - 1)]

\* Recorder::Clear
Clear(hist) == << >>

\* Recorder::TruncateAfter(index), index 0-based
TruncateAfter(hist, index) ==
    IF index + 1 < Len(hist) THEN SubSeq(hist, 1, index + 1) ELSE hist

\* Recorder::GetFrame(index), index 0-based: the frame found, none out of range
GetFrame(hist, index) == IF index >= Len(hist) THEN {} ELSE {hist[index + 1]}

\* steps = std::max(1, static_cast<int>(settings.timeScale))
RewindSteps(scale) == Max2(1, scale \div Scale)

\* the rewind loop: Recorder::Rewind is called up to steps times into out; an
\* empty history ends the loop and clears settings.rewinding
RECURSIVE RewindLoop(_, _, _)
RewindLoop(hist, out, steps) ==
    IF steps = 0 THEN [history |-> hist, snap |-> out, rewinding |-> TRUE]
    ELSE IF hist = << >> THEN [history |-> hist, snap |-> out, rewinding |-> FALSE]
    ELSE RewindLoop(SubSeq(hist, 1, Len(hist) - 1), hist[Len(hist)], steps - 1)

\* a variant: scrubbing starts at index 1
FrameBranchFromOne(rew, scrub) ==
    IF rew THEN "rewind" ELSE IF scrub > 0 THEN "scrub" ELSE "live"

\* the branch of the time-control section of Engine::Update that runs
FrameBranch(rew, scrub) ==
    IF rew THEN "rewind" ELSE IF scrub >= 0 THEN "scrub" ELSE "live"

\* one 60 Hz frame in 1/100 ms, the literal 16.67f of Engine::Update
NudgeDelta == 1667

\* scaledDelta of the live branch
ScaledDelta(nudge, step, isPaused, delta, scale) ==
    IF nudge > 0 THEN NudgeDelta
    ELSE IF step THEN FMul(NudgeDelta, scale)
    ELSE IF ~ isPaused THEN FMul(delta, scale)
    ELSE 0

\* at most this many frames (calls of Engine::Update) are followed
MaxFrames == 3

\* at most this many bodies are in the world of SpecEngine
MaxEngineBodies == 2

\* the worlds Engine::Update starts from
EngineScenes == { SceneOneBall, SceneFloorDrop }

\* the frame times RunFrame passes, in 1/100 ms
EngineDeltas == {1667}

\* the time scales of the UI buttons 1x and 2x
EngineTimeScales == {Scale, 2 * Scale}

\* the record intervals of the UI slider used
EngineIntervals == {1, 2}

\* the body the spawner adds: a ball of radius 20 px at rest
SpawnedBall(id) == StepBall(id, 50000, 50000, 0, 0, 2000)

\* the observations of a frame: its number, the mode settings at its start,
\* the branch taken and what the branch has called
FrameObs(frames, branch, restored, recorded) ==
    [frames |-> frames, branch |-> branch, wasRewinding |-> rewinding,
     wasScrubIndex |-> scrubIndex, restored |-> restored, recorded |-> recorded]

\* the observations of the recorder: for each snapshot of the history the
\* bodies its entries were captured from, and the same for the snapshot the
\* frame has restored
CaptureObs(owners, applied) == [owners |-> owners, applied |-> applied]

\* the observations of the host kept from frame to frame: whether the Remove
\* Body button has removed a body
HostObs == [removals |-> aux.removals]

\* the projectile CheckCannon adds: a ball of radius 10 px leaving the cannon
FiredBall(id) == StepBall(id, 0, 30000, 30000, 30000, 1000)

InitEngine ==
    /\ objects \in EngineScenes
    /\ pairs = << >>
    /\ recording \in BOOLEAN
    /\ selectedBody = 0
    /\ draggedBody = 0
    /\ pc = "idle"
    /\ deltaMs = 0
    /\ requested = 0
    /\ iterations = 0
    /\ currIteration = 0
    /\ pairIdx = 0
    /\ bodyIdx = 0
    /\ prevPositions = << >>
    /\ integratedPositions = << >>
    /\ snap = << >>
    /\ paused = FALSE
    /\ rewinding = FALSE
    /\ scrubIndex = -1
    /\ timeScale \in EngineTimeScales
    /\ stepOneFrame = FALSE
    /\ recordInterval \in EngineIntervals
    /\ recordFrameCounter = 0
    /\ spawnNudgeFrames = 0
    /\ history = << >>
    /\ aux = [TickStart(<< >>, 0) EXCEPT !.lastOp = "none"]
               @@ FrameObs(0, "none", FALSE, FALSE) @@ CaptureObs(<< >>, << >>)
               @@ [removals |-> 0]

worldVars == <<pairs, selectedBody, draggedBody, pc, deltaMs, requested, iterations,
               currIteration, pairIdx, bodyIdx, prevPositions, integratedPositions, snap>>

\* the hold-to-rewind control: settings.rewinding is set or released
HostRewind ==
    /\ pc = "idle"
    /\ rewinding' = ~ rewinding
    /\ UNCHANGED <<objects, worldVars, recording, paused, scrubIndex, timeScale,
                   stepOneFrame, recordInterval, recordFrameCounter, spawnNudgeFrames,
                   history, aux>>

\* the REC button
HostRecord ==
    /\ pc = "idle"
    /\ recording' = ~ recording
    /\ history' = IF recording' THEN history ELSE Clear(history)
    /\ scrubIndex' = -1
    /\ aux' = [aux EXCEPT !.owners = IF recording' THEN @ ELSE Clear(@)]
    /\ UNCHANGED <<objects, worldVars, paused, rewinding, timeScale, stepOneFrame,
                   recordInterval, recordFrameCounter, spawnNudgeFrames>>

\* the PAUSE / PLAY button and the key P
HostPause ==
    /\ pc = "idle"
    /\ paused' = ~ paused
    /\ UNCHANGED <<objects, worldVars, recording, timeVars, aux>>

\* the STEP button and the key O
HostStep ==
    /\ pc = "idle"
    /\ paused
    /\ stepOneFrame' = TRUE
    /\ UNCHANGED <<objects, worldVars, recording, paused, rewinding, scrubIndex,
                   timeScale, recordInterval, recordFrameCounter, spawnNudgeFrames,
                   history, aux>>

\* the timeline slider moved to sliderVal
HostScrub ==
    /\ pc = "idle"
    /\ Len(history) > 0
    /\ \E sliderVal \in 0..(Len(history) - 1) :
          IF sliderVal >= Len(history) - 1
          THEN /\ history' = TruncateAfter(history, sliderVal)
               /\ scrubIndex' = -1
               /\ aux' = [aux EXCEPT !.owners = TruncateAfter(@, sliderVal)]
          ELSE /\ scrubIndex' = sliderVal
               /\ UNCHANGED <<history, aux>>
    /\ UNCHANGED <<objects, worldVars, recording, paused, rewinding, timeScale,
                   stepOneFrame, recordInterval, recordFrameCounter, spawnNudgeFrames>>

\* the RESUME HERE button
HostResume ==
    /\ pc = "idle"
    /\ scrubIndex >= 0
    /\ history' = TruncateAfter(history, scrubIndex)
    /\ scrubIndex' = -1
    /\ aux' = [aux EXCEPT !.owners = TruncateAfter(@, scrubIndex)]
    /\ UNCHANGED <<objects, worldVars, recording, paused, rewinding, timeScale,
                   stepOneFrame, recordInterval, recordFrameCounter, spawnNudgeFrames>>

\* Engine::Update with settings.rewinding set
EngineRewind ==
    /\ pc = "idle"
    /\ aux.frames < MaxFrames
    /\ FrameBranch(rewinding, scrubIndex) = "rewind"
    /\ LET loop == RewindLoop(history, << >>, RewindSteps(timeScale))
       IN /\ history' = loop.history
          /\ rewinding' = loop.rewinding
          /\ objects' = RestoreSnapshot(objects, loop.snap)
    /\ aux' = [TickStart(<< >>, aux.ticks) EXCEPT !.lastOp = "rewind"]
                @@ FrameObs(aux.frames + 1, "rewind", TRUE, FALSE)
                @@ Only({ CaptureObs(o.history, o.snap)
                          : o \in {RewindLoop(aux.owners, << >>, RewindSteps(timeScale))} })
                @@ HostObs
    /\ UNCHANGED <<worldVars, recording, paused, scrubIndex, timeScale, stepOneFrame,
                   recordInterval, recordFrameCounter, spawnNudgeFrames>>

\* Engine::Update with settings.scrubIndex >= 0
EngineScrub ==
    /\ pc = "idle"
    /\ aux.frames < MaxFrames
    /\ FrameBranch(rewinding, scrubIndex) = "scrub"
    /\ LET frame == GetFrame(history, scrubIndex)
       IN /\ objects' = IF frame = {} THEN objects
                        ELSE RestoreSnapshot(objects, CHOOSE f \in frame : TRUE)
          /\ aux' = [TickStart(<< >>, aux.ticks) EXCEPT !.lastOp = "scrub"]
                      @@ FrameObs(aux.frames + 1, "scrub", frame # {}, FALSE)
                      @@ CaptureObs(aux.owners,
                                    IF frame = {} THEN << >>
                                    ELSE aux.owners[scrubIndex + 1])
                      @@ HostObs
    /\ UNCHANGED <<worldVars, recording, paused, timeVars>>

\* Engine::Update in live mode, up to the entry of World::Update
EngineLive ==
    /\ pc = "idle"
    /\ aux.frames < MaxFrames
    /\ FrameBranch(rewinding, scrubIndex) = "live"
    /\ recordFrameCounter' = IF recording THEN recordFrameCounter + 1
                             ELSE recordFrameCounter
    /\ history' = IF recording /\ recordFrameCounter' % recordInterval = 0
                  THEN Record(history, CaptureSnapshot(objects)) ELSE history
    /\ spawnNudgeFrames' = IF spawnNudgeFrames > 0 THEN spawnNudgeFrames - 1
                           ELSE spawnNudgeFrames
    /\ stepOneFrame' = IF spawnNudgeFrames > 0 THEN stepOneFrame ELSE FALSE
    /\ \E d \in EngineDeltas, r \in StepRequested :
          /\ deltaMs' = ScaledDelta(spawnNudgeFrames, stepOneFrame, paused, d, timeScale)
          /\ requested' = r
          /\ iterations' \in ComputeAdaptiveIterations(objects, deltaMs', r)
    /\ objects' = AfterAdaptive(objects)
    /\ pc' = "begin"
    /\ bodyIdx' = 1
    /\ aux' = TickStart(objects', aux.ticks)
                @@ FrameObs(aux.frames + 1, "live", FALSE, history' # history)
                @@ CaptureObs(IF recording /\ recordFrameCounter' % recordInterval = 0
                              THEN Record(aux.owners, Ids(objects)) ELSE aux.owners,
                              << >>)
                @@ HostObs
    /\ UNCHANGED <<pairs, recording, selectedBody, draggedBody, currIteration, pairIdx,
                   prevPositions, integratedPositions, snap, paused, rewinding,
                   scrubIndex, timeScale, recordInterval>>

\* CheckSpawning at the end of a live frame, with a spawn request pending
EngineCheckSpawning ==
    /\ pc = "idle"
    /\ aux.branch = "live"
    /\ aux.lastOp = "gc"
    /\ Len(objects) < MaxEngineBodies
    /\ objects' = Add(objects, SpawnedBall(NewId(objects)))
    /\ spawnNudgeFrames' = 1
    /\ history' = Clear(history)
    /\ scrubIndex' = -1
    /\ aux' = [aux EXCEPT !.lastOp = "spawn", !.owners = Clear(@)]
    /\ UNCHANGED <<worldVars, recording, paused, rewinding, timeScale, stepOneFrame,
                   recordInterval, recordFrameCounter>>

\* CheckCannon at the end of a live frame, with a fire request pending
EngineCheckCannon ==
    /\ pc = "idle"
    /\ aux.branch = "live"
    /\ aux.lastOp \in {"gc", "spawn"}
    /\ Len(objects) < MaxEngineBodies
    /\ objects' = Add(objects, FiredBall(NewId(objects)))
    /\ aux' = [aux EXCEPT !.lastOp = "fire"]
    /\ UNCHANGED <<worldVars, recording, paused, timeVars>>

\* a click on a body (PickBody finds it) or on empty space
HostSelect ==
    /\ pc = "idle"
    /\ \E clickedBody \in {0} \cup Range(Ids(objects)) :
          /\ clickedBody # selectedBody
          /\ selectedBody' = clickedBody
    /\ draggedBody' = 0
    /\ UNCHANGED <<objects, pairs, pc, deltaMs, requested, iterations, currIteration,
                   pairIdx, bodyIdx, prevPositions, integratedPositions, snap,
                   recording, paused, timeVars, aux>>

\* the Remove Body button of the inspector of the selected body:
\* world->RemoveObject(body), body a copy of the host's selectedBody
HostRemove ==
    /\ pc = "idle"
    /\ selectedBody # 0
    /\ objects' = RemoveObject(objects, selectedBody)
    /\ aux' = [aux EXCEPT !.lastOp = "remove",
                          !.removals = IF objects' # objects THEN 1 ELSE @]
    /\ UNCHANGED <<worldVars, recording, paused, timeVars>>

NextEngine ==
    \/ HostRewind
    \/ HostRecord
    \/ HostPause
    \/ HostStep
    \/ HostScrub
    \/ HostResume
    \/ EngineRewind
    \/ EngineScrub
    \/ EngineLive
    \/ EngineCheckSpawning
    \/ UpdateBeginForces
    \/ UpdateSubStep
    \/ UpdateIntegrate
    \/ UpdateBuildPairs
    \/ UpdateSolve
    \/ UpdateTriggers
    \/ UpdateFinalize
    \/ UpdateRemove

SpecEngine == InitEngine /\ [][NextEngine]_vars

-----------------------------------------------------------------------------
(* Specification SpecHost: the frames of Engine::Update together with the   *)
(* host's handling of bodies: clicks that select a body, the Remove Body    *)
(* button, spawn requests and cannon fire requests.                          *)

\* a ball at rest in view and a ball whose top crosses viewBottom in a tick
SceneFalling ==
    << StepBall(1, 0, 5000, 0, 0, 2000),
       StepBall(2, 150000, -1001900, 0, -60000, 2000) >>

\* the worlds of SpecHost
HostScenes == { SceneFalling, SceneFloorDrop }

InitHost ==
    /\ objects \in HostScenes
    /\ pairs = << >>
    /\ recording \in BOOLEAN
    /\ selectedBody = 0
    /\ draggedBody = 0
    /\ pc = "idle"
    /\ deltaMs = 0
    /\ requested = 0
    /\ iterations = 0
    /\ currIteration = 0
    /\ pairIdx = 0
    /\ bodyIdx = 0
    /\ prevPositions = << >>
    /\ integratedPositions = << >>
    /\ snap = << >>
    /\ paused = FALSE
    /\ TimeIdle
    /\ aux = [TickStart(<< >>, 0) EXCEPT !.lastOp = "none"]
               @@ FrameObs(0, "none", FALSE, FALSE) @@ CaptureObs(<< >>, << >>)
               @@ [removals |-> 0]

\* a handle that is not null (0) and points to no body of the list
Dangling(handle, bodies) == handle # 0 /\ handle \notin LiveIds(bodies)

\* UIManager::RenderInspectorPanel(selectedBody) reads the body behind the
\* handle.  Behind a dangling handle it reads freed memory: the frame may go
\* on as if nothing had happened (the other actions) or the program may end
\* here
HostInspect ==
    /\ pc = "idle"
    /\ Dangling(selectedBody, objects)
    /\ pc' = "crashed"
    /\ UNCHANGED <<objects, pairs, selectedBody, draggedBody, deltaMs, requested,
                   iterations, currIteration, pairIdx, bodyIdx, prevPositions,
                   integratedPositions, snap, recording, paused, timeVars, aux>>

NextHost ==
    \/ HostInspect
    \/ HostRewind
    \/ HostRecord
    \/ HostScrub
    \/ HostSelect
    \/ HostRemove
    \/ EngineRewind
    \/ EngineScrub
    \/ EngineLive
    \/ EngineCheckSpawning
    \/ EngineCheckCannon
    \/ UpdateBeginForces
    \/ UpdateSubStep
    \/ UpdateIntegrate
    \/ UpdateBuildPairs
    \/ UpdateSolve
    \/ UpdateTriggers
    \/ UpdateFinalize
    \/ UpdateRemove

SpecHost == InitHost /\ [][NextHost]_vars

-----------------------------------------------------------------------------
(* Properties of the time control (checked under SpecEngine) *)

\* World::Update has been entered in the frame observed
UpdateRan == aux.lastOp \notin {"none", "rewind", "scrub"}

\* C12: in every frame exactly one of the rewind branch (rewinding set at the
\* start of the frame), the scrub branch (rewinding clear, scrubIndex >= 0)
\* and the live branch runs; World::Update and Recorder::Record run only in
\* a frame that started with rewinding clear and scrubIndex < 0, and these
\* stay so while World::Update runs; a snapshot is restored only in a frame
\* that started with rewinding set or scrubIndex >= 0.
C12_ModeExclusive ==
    /\ pc # "idle" => (aux.branch = "live" /\ ~ rewinding /\ scrubIndex < 0)
    /\ aux.frames > 0 =>
          /\ aux.branch \in {"rewind", "scrub", "live"}
          /\ aux.branch = "rewind" <=> aux.wasRewinding
          /\ aux.branch = "scrub" <=> (~ aux.wasRewinding /\ aux.wasScrubIndex >= 0)
          /\ aux.branch = "live" <=> (~ aux.wasRewinding /\ aux.wasScrubIndex < 0)
          /\ (UpdateRan \/ aux.recorded) =>
                (aux.branch = "live" /\ ~ aux.wasRewinding /\ aux.wasScrubIndex < 0)
          /\ aux.restored =>
                (aux.branch # "live" /\ (aux.wasRewinding \/ aux.wasScrubIndex >= 0))

\* a scrub frame that restores the first frame recorded by two live frames
C12_Witness ==
    /\ aux.branch = "scrub"
    /\ aux.restored
    /\ aux.wasScrubIndex = 0
    /\ Len(history) >= 2
    /\ objects = RestoreSnapshot(objects, history[1])

\* a rewind frame started with rewinding set and scrubIndex >= 0 as well
C12_WitnessRewind ==
    /\ aux.branch = "rewind"
    /\ aux.wasRewinding
    /\ aux.wasScrubIndex >= 0
    /\ rewinding

\* a live frame that has recorded a snapshot and finished World::Update
C12_WitnessLive ==
    /\ aux.branch = "live"
    /\ aux.recorded
    /\ aux.lastOp = "gc"
    /\ pc = "idle"

-----------------------------------------------------------------------------
(* Specification SpecNarrow: the narrow phase and the solver applied to one *)
(* pair of bodies drawn from a set of shapes, sizes and positions.          *)

\* box sizes <<width, height>> and ball radii, in units
NarrowBoxes == { <<1000, 1000>>, <<2000, 400>>, <<200, 2000>> }

NarrowRadii == { 500, 300 }

\* masses of the balls, in 1/100 kg
NarrowMasses == { Scale, 4 * Scale }

\* velocities of the balls, in units per second
NarrowVels == { VZero, Vec(30000, -40000), Vec(-40000, 500) }

\* static and kinetic friction coefficients of the inclines, in 1/100
NarrowFrictions == { <<50, 30>>, <<200, 10>> }

\* base and height of the inclines, in units
NarrowInclines == { <<2000, 1000>>, <<1000, 1500>> }

\* width and height of the triggers, in units
NarrowTriggers == { <<800, 800>> }

\* offsets of body B from body A, in units (among them the offsets 15 px,
\* 10 px and 8 px of two 10 px shapes apart, touching and 2 px deep)
NarrowXs == { -1500, -800, -3, 0, 437, 800, 1000, 1500 }

NarrowYs == { -1200, -600, 0, 251, 1000 }

\* the shapes body A and body B are drawn from
NarrowShapes(id, pos) ==
    { Rigidbody(id, "Box", t, pos, VZero, 0, wh[1], wh[2], 40) :
        wh \in NarrowBoxes, t \in {"Static"} }
    \cup { [Rigidbody(id, "Ball", "Dynamic", pos, v, r, 0, 0, 40) EXCEPT !.mass = m] :
        r \in NarrowRadii, m \in NarrowMasses, v \in NarrowVels }
    \cup { Incline(id, pos, bh[1], bh[2], flip, mu[1], mu[2]) :
        bh \in NarrowInclines, flip \in BOOLEAN, mu \in NarrowFrictions }
    \cup { Rigidbody(id, "Trigger", "Static", pos, VZero, 0, wh[1], wh[2], 40) :
        wh \in NarrowTriggers }

InitNarrow ==
    /\ \E x \in NarrowXs, y \in NarrowYs :
          \E a \in NarrowShapes(1, VZero), b \in NarrowShapes(2, Vec(x, y)) :
              objects = <<a, b>>
    /\ pairs = << >>
    /\ IdleFrame
    /\ aux = [op |-> "init", hit |-> HitInfo(FALSE, VZero, 0), before |-> << >>]

\* collision::Collide(objects[0], objects[1])
NarrowCollide ==
    /\ aux.op = "init"
    /\ aux' = [op |-> "collide", hit |-> Collide(objects[1], objects[2]),
               before |-> objects]
    /\ UNCHANGED <<objects, pairs, frameVars>>

\* CollisionSolver::ResolveIfColliding after a hit:
\* SeparateBodies(bodyA, bodyB, hit.normal * hit.depth).  World::Update calls
\* it for the pairs of BuildPairs only, which never has two Static bodies.
NarrowSeparate ==
    /\ aux.op = "collide"
    /\ aux.hit.result
    /\ ~ BothStatic(objects[1], objects[2])
    /\ objects' = SeparateBodies(objects[1], objects[2],
                                 VScale(aux.hit.normal, aux.hit.depth))
    /\ aux' = [aux EXCEPT !.op = "separate"]
    /\ UNCHANGED <<pairs, frameVars>>

\* CollisionSolver::ResolveIfColliding after SeparateBodies:
\* FindContactPoints and ResolveWithRotationAndFriction on the manifold
NarrowResolve ==
    /\ aux.op = "separate"
    /\ objects' =
          Only({ IF contacts.contactCount = 0 THEN objects
                 ELSE ResolveWithRotationAndFriction(objects[1], objects[2],
                                                     aux.hit.normal, contacts.contact1)
                 : contacts \in {FindContactPoints(objects[1], objects[2])}})
    /\ aux' = [aux EXCEPT !.op = "resolve", !.before = objects]
    /\ UNCHANGED <<pairs, frameVars>>

NextNarrow == NarrowCollide \/ NarrowSeparate \/ NarrowResolve

SpecNarrow == InitNarrow /\ [][NextNarrow]_vars

-----------------------------------------------------------------------------
(* Properties of the narrow phase (checked under SpecNarrow) *)

\* the signed length of the overlap of the intervals [minA, maxA], [minB, maxB]
ExtentOverlap(minA, maxA, minB, maxB) == Min2(maxA, maxB) - Max2(minA, minB)

\* the least distance one of the two intervals has to move to stop overlapping
ExtentPenetration(minA, maxA, minB, maxB) == Min2(maxB - minA, maxA - minB)

Extent(b) == ComputeAABB(b)

OverlapX(a, b) == ExtentOverlap(Extent(a).min.x, Extent(a).max.x,
                                Extent(b).min.x, Extent(b).max.x)

OverlapY(a, b) == ExtentOverlap(Extent(a).min.y, Extent(a).max.y,
                                Extent(b).min.y, Extent(b).max.y)

PenetrationX(a, b) == ExtentPenetration(Extent(a).min.x, Extent(a).max.x,
                                        Extent(b).min.x, Extent(b).max.x)

PenetrationY(a, b) == ExtentPenetration(Extent(a).min.y, Extent(a).max.y,
                                        Extent(b).min.y, Extent(b).max.y)

AlongX(n) == n \in {Vec(Scale, 0), Vec(-Scale, 0)}

AlongY(n) == n \in {Vec(0, Scale), Vec(0, -Scale)}

\* Collide has been applied to two boxes
BoxesCollided == aux.op = "collide" /\ IsBox(objects[1]) /\ IsBox(objects[2])

\* C13 as stated: for two unrotated boxes Collide reports a hit if and only
\* if the x-extents and the y-extents both overlap with positive length; on a
\* hit the depth is the smaller of the two overlap lengths and the normal is
\* the unit vector of that axis.
C13_AsStated ==
    BoxesCollided =>
        LET a == objects[1]
            b == objects[2]
        IN /\ aux.hit.result <=> (OverlapX(a, b) > 0 /\ OverlapY(a, b) > 0)
           /\ aux.hit.result =>
                 /\ aux.hit.depth = Min2(OverlapX(a, b), OverlapY(a, b))
                 /\ AlongX(aux.hit.normal) \/ AlongY(aux.hit.normal)
                 /\ AlongX(aux.hit.normal) => OverlapX(a, b) = aux.hit.depth
                 /\ AlongY(aux.hit.normal) => OverlapY(a, b) = aux.hit.depth

\* C13: for two unrotated boxes Collide reports a hit if and only if the
\* x-extents and the y-extents both overlap with positive length; on a hit
\* the depth is the smaller of the two axis penetrations min(maxB - minA,
\* maxA - minB) (the overlap length unless one extent lies inside the other)
\* and the normal is the unit vector of an axis of that penetration.
C13_BoxSAT ==
    BoxesCollided =>
        LET a == objects[1]
            b == objects[2]
        IN /\ aux.hit.result <=> (OverlapX(a, b) > 0 /\ OverlapY(a, b) > 0)
           /\ aux.hit.result =>
                 /\ aux.hit.depth = Min2(PenetrationX(a, b), PenetrationY(a, b))
                 /\ AlongX(aux.hit.normal) \/ AlongY(aux.hit.normal)
                 /\ AlongX(aux.hit.normal) => PenetrationX(a, b) = aux.hit.depth
                 /\ AlongY(aux.hit.normal) => PenetrationY(a, b) = aux.hit.depth

\* the 10 px boxes 8 px apart: a hit of depth 2 px along x
C13_Witness ==
    /\ BoxesCollided
    /\ objects[1].width = 1000 /\ objects[1].height = 1000
    /\ objects[2].width = 1000 /\ objects[2].height = 1000
    /\ objects[2].pos = Vec(800, 0)
    /\ aux.hit = HitInfo(TRUE, Vec(Scale, 0), 200)

\* the 10 px boxes 15 px apart and 10 px apart (touching): no hit
C13_WitnessApart ==
    /\ BoxesCollided
    /\ objects[1].width = 1000 /\ objects[1].height = 1000
    /\ objects[2].width = 1000 /\ objects[2].height = 1000
    /\ objects[2].pos \in {Vec(1500, 0), Vec(1000, 0)}
    /\ ~ aux.hit.result

\* Collide has been applied to two balls
BallsCollided == aux.op = "collide" /\ IsBall(objects[1]) /\ IsBall(objects[2])

\* the exact square of the distance of two points
ExactDistanceSq(a, b) == (b.x - a.x) * (b.x - a.x) + (b.y - a.y) * (b.y - a.y)

\* n is, up to the rounding of its components, a unit vector along delta
UnitAlong(n, delta) ==
    /\ n.x * delta.x + n.y * delta.y > 0
    /\ 2 * Abs(n.x * delta.y - n.y * delta.x) <= Abs(delta.x) + Abs(delta.y)
    /\ n.x * n.x + n.y * n.y >= (Scale - 2) * (Scale - 2)
    /\ n.x * n.x + n.y * n.y <= (Scale + 2) * (Scale + 2)

\* C14: IntersectCircles reports a hit if and only if the centre distance is
\* strictly less than the sum of the radii; on a hit the depth is radiusA +
\* radiusB - distance and the normal is the unit vector from centre A to
\* centre B, and exactly (1, 0) for coincident centres.
C14_Circles ==
    BallsCollided =>
        LET a == objects[1]
            b == objects[2]
            radii == a.radius + b.radius
        IN /\ aux.hit.result <=> ExactDistanceSq(a.pos, b.pos) < radii * radii
           /\ aux.hit.result =>
                 /\ aux.hit.depth = radii - ISqrt(ExactDistanceSq(a.pos, b.pos))
                 /\ aux.hit.depth > 0
                 /\ a.pos # b.pos => UnitAlong(aux.hit.normal, VSub(b.pos, a.pos))
                 /\ a.pos = b.pos => aux.hit.normal = Vec(Scale, 0)

\* circles of radius 5 px at distance 8 px: a hit of depth 2 px from A to B
C14_Witness ==
    /\ BallsCollided
    /\ objects[1].radius = 500 /\ objects[2].radius = 500
    /\ objects[2].pos = Vec(800, 0)
    /\ aux.hit = HitInfo(TRUE, Vec(Scale, 0), 200)

\* circles of radius 5 px at distance 10 px: no hit; coincident centres: (1, 0)
C14_WitnessEdge ==
    /\ BallsCollided
    /\ objects[1].radius = 500 /\ objects[2].radius = 500
    /\ \/ objects[2].pos = Vec(1000, 0) /\ ~ aux.hit.result
       \/ objects[2].pos = VZero /\ aux.hit = HitInfo(TRUE, Vec(Scale, 0), 1000)


\* the two bodies are of kinds Collide has a branch for
Dispatched ==
    /\ aux.op = "collide"
    /\ \A k \in {1, 2} : IsBox(objects[k]) \/ IsBall(objects[k])
                             \/ IsIncline(objects[k]) \/ IsTrigger(objects[k])

\* the polygon is body A and the circle body B: the branches that negate
CircleIsB == aux.op = "collide" /\ ~ IsBall(objects[1]) /\ IsBall(objects[2])

\* C15: for every pair of shapes Collide dispatches, in either order, the
\* normal of a reported hit points from body A towards body B:
\* dot(normal, B.pos - A.pos) >= 0, the branches with the circle as body B
\* (where the normal of the circle-polygon test is negated) included
C15_NormalAToB ==
    (Dispatched /\ aux.hit.result) =>
        Dot(aux.hit.normal, VSub(objects[2].pos, objects[1].pos)) >= 0

\* an incline as body A and a ball as body B whose hit normal was negated
\* and is not perpendicular to the line of the centres
C15_Witness ==
    /\ CircleIsB /\ IsIncline(objects[1]) /\ aux.hit.result
    /\ Dot(aux.hit.normal, VSub(objects[2].pos, objects[1].pos)) > 0

\* a ball as body A and a trigger as body B that hit
C15_WitnessTrigger ==
    /\ Dispatched /\ IsBall(objects[1]) /\ IsTrigger(objects[2]) /\ aux.hit.result
    /\ Dot(aux.hit.normal, VSub(objects[2].pos, objects[1].pos)) > 0

\* how far SeparateBodies has moved body k
Moved(k) == VSub(objects[k].pos, aux.before[k].pos)

\* squared length of a small vector, exact
LengthSq(v) == v.x * v.x + v.y * v.y

\* both bodies of the separated pair are Dynamic
BothDynamic ==
    aux.op = "separate" /\ \A k \in {1, 2} : aux.before[k].bodyType = "Dynamic"

\* the part of the claim the code meets: a Static body is not moved, and body
\* B ends min(depth, MAX_PENETRATION_CORRECTION) further along the normal
\* from body A than it was (to the rounding of the halves and of the
\* components of the normal, which are resolved to 1/Scale)
C16_TotalAndStatic ==
    aux.op = "separate" =>
        /\ \A k \in {1, 2} : aux.before[k].bodyType = "Static" => Moved(k) = VZero
        /\ Abs(Length(VSub(Moved(2), Moved(1)))
                 - Min2(aux.hit.depth, MAX_PENETRATION_CORRECTION * Scale))
              <= 2 + aux.hit.depth \div Scale
        /\ Dot(VSub(Moved(2), Moved(1)), aux.hit.normal) >= 0

\* what the code does with two Dynamic bodies: each is moved by half of the
\* correction, whatever the masses
C16_EqualHalves ==
    BothDynamic => Moved(1) = VNeg(Moved(2))

\* C16: SeparateBodies moves the bodies apart along the normal by
\* min(depth, MAX_PENETRATION_CORRECTION) in total and splits the correction
\* in proportion to the inverse masses: a Static body gets none of it, and of
\* two Dynamic bodies of different mass the lighter one is moved further
C16_AsStated ==
    /\ C16_TotalAndStatic
    /\ (BothDynamic /\ aux.before[1].mass < aux.before[2].mass
            /\ aux.hit.depth >= Scale)
          => LengthSq(Moved(1)) > LengthSq(Moved(2))
    /\ (BothDynamic /\ aux.before[2].mass < aux.before[1].mass
            /\ aux.hit.depth >= Scale)
          => LengthSq(Moved(2)) > LengthSq(Moved(1))

\* two Dynamic balls of different mass, at least 1 px deep, were separated
C16_Witness ==
    /\ BothDynamic
    /\ aux.before[1].mass # aux.before[2].mass
    /\ aux.hit.depth >= Scale
    /\ Moved(2) # VZero

\* a Static body and a Dynamic one deeper than the cap were separated
C16_WitnessCapped ==
    /\ aux.op = "separate"
    /\ aux.before[1].bodyType = "Static"
    /\ aux.hit.depth > MAX_PENETRATION_CORRECTION * Scale
    /\ Moved(2) # VZero

-----------------------------------------------------------------------------
(* Properties of the impulses (checked under SpecNarrow).  In a state after *)
(* NarrowResolve, aux.before holds the two bodies as SeparateBodies left    *)
(* them and objects the bodies after the impulses.                          *)

\* the manifold had a contact point and the impulses were computed
Resolved ==
    aux.op = "resolve" /\ FindContactPoints(aux.before[1], aux.before[2]).contactCount = 1

TheContact == FindContactPoints(aux.before[1], aux.before[2]).contact1

\* the normal impulse j of the contact
TheJ == NormalImpulse(aux.before[1], aux.before[2], aux.hit.normal, TheContact)

\* body k after PASS 1 (the normal impulse applied)
AfterNormal(k) ==
    Impelled(aux.before[k], VSub(TheContact, aux.before[k].pos),
             VScale(aux.hit.normal, TheJ), IF k = 1 THEN -1 ELSE 1)

\* the tangential part of the velocity of b relative to a at the contact
Slip(a, b) ==
    Only({ VSub(rv, VScale(aux.hit.normal, Dot(rv, aux.hit.normal)))
           : rv \in {VSub(PointVelocity(b, VSub(TheContact, b.pos)),
                          PointVelocity(a, VSub(TheContact, a.pos)))}})

SlipBefore == Slip(AfterNormal(1), AfterNormal(2))

SlipAfter == Slip(objects[1], objects[2])

\* the impulse jt that would cancel the slip
TheJt ==
    Only({ FDiv(- Dot(SlipBefore, tangent),
                InvMass(aux.before[1]) + InvMass(aux.before[2])
                + TimesInvInertia(aux.before[1],
                      Dot(Perp(VSub(TheContact, aux.before[1].pos)), tangent))
                + TimesInvInertia(aux.before[2],
                      Dot(Perp(VSub(TheContact, aux.before[2].pos)), tangent)))
           : tangent \in {Normalize(SlipBefore)}})

TheMu == CombinedFriction(aux.before[1], aux.before[2])

\* the contact is within the static limit
Sticking == Abs(TheJt) <= FMul(TheJ, TheMu.static)

\* the change of linear velocity the friction impulse gave body k
FrictionKick(k) == VSub(objects[k].linearVel, AfterNormal(k).linearVel)

\* a and b agree to 5 % of b and 0.1 px/s (the resolution of the unit tangent)
Close(a, b) == Abs(a - b) <= 10 + Abs(b) \div 20

C18_WitnessKinetic ==
    /\ Resolved /\ TheJ > 0 /\ ~ Sticking
    /\ Length(SlipBefore) > 50 * Scale
    /\ FrictionKick(2) # VZero

\* two bodies that slip past each other while separating: no impulse
C18_WitnessSeparating ==
    /\ Resolved /\ TheJ <= 0
    /\ Length(Slip(aux.before[1], aux.before[2])) > 50 * Scale

-----------------------------------------------------------------------------
(* Properties of the AABB cache (checked under SpecEngine) *)

\* what GetAABB returns for the body is the box of its present position
CacheValid(b) == GetAABB(b) = ComputeAABB(b)

\* C19: whatever operations have changed a body's position or rotation
\* (integration, translation, separation, swept correction, RestoreSnapshot),
\* GetAABB returns the box computed from the present position: the cached box
\* is never returned stale
C19_AsStated == \A i \in 1..Len(objects) : CacheValid(objects[i])

\* a frame has restored a recorded snapshot over bodies whose boxes were cached
C19_Witness ==
    /\ aux.lastOp = "scrub"
    /\ aux.restored
    /\ \E i \in 1..Len(objects) : ~ objects[i].aabbUpdateRequired

-----------------------------------------------------------------------------
(* Termination of a tick (checked under SpecStepFair: SpecStep with the     *)
(* steps of a tick taken one after the other, as the one thread of the      *)
(* program takes them).                                                     *)

\* a step of World::Update after its entry: between the entry and the return
\* the steps of Next are those of the tick, and one of them can be taken
TickStep == pc # "idle" /\ vars' # vars

\* weak fairness of the steps of a tick, WF_vars(TickStep), written out with
\* ENABLED <<TickStep>>_vars replaced by what it amounts to, pc # "idle"
SpecStepFair ==
    SpecStep /\ ([]<>(pc = "idle") \/ []<><<TickStep>>_vars)

\* the numbers of steps of the binary searches that handling the pair at
\* pairIdx runs (for body a on the bodies ResolveIfColliding leaves, for body
\* b on those the correction of a leaves)
SearchSteps ==
    IF pc # "solve" \/ pairIdx > Len(pairs) THEN {}
    ELSE Only({
         { SweepSearch(run[1], run[2], prevPositions[run[2]],
                       VSub(integratedPositions[run[2]], prevPositions[run[2]]),
                       Length(VSub(integratedPositions[run[2]], prevPositions[run[2]])),
                       0, SweepDen, 0).steps :
             run \in { r \in { <<solved.resolved, pairs[pairIdx][1]>>,
                               <<solved.sweptA, pairs[pairIdx][2]>> } :
                          /\ ~ IsTrigger(objects[pairs[pairIdx][1]])
                          /\ ~ IsTrigger(objects[pairs[pairIdx][2]])
                          /\ SweepRuns(r[1][r[2]], prevPositions[r[2]],
                                       integratedPositions[r[2]]) } }
         : solved \in {SolvePair(objects, pairs[pairIdx][1], pairs[pairIdx][2],
                                 prevPositions, integratedPositions)}})

\* the counters of the loops of a tick are within their bounds: the sub-step
\* loop has run at most iterations <= MAX_PHYSICS_ITERATIONS times, a binary
\* search runs at most BINARY_STEPS times, the removal loop runs once per
\* body of the list
LoopsBounded ==
    /\ pc # "idle" =>
          /\ iterations <= MAX_PHYSICS_ITERATIONS
          /\ aux.builds <= iterations
    /\ pc \in {"substep", "integrate", "build", "solve"} => currIteration <= iterations
    /\ \A n \in SearchSteps : n <= BINARY_STEPS
    /\ pc = "gc" =>
          RemoveObjects(objects, selectedBody, draggedBody).steps = Len(objects)

\* C20: every tick runs to completion: the sub-step loop runs at most
\* MAX_PHYSICS_ITERATIONS times, each binary search of the swept correction
\* at most BINARY_STEPS times, the removal loop ends, and a tick that has
\* begun reaches its end
C20_Termination ==
    /\ [] LoopsBounded
    /\ (pc # "idle") ~> TickDone

\* a tick of MAX_PHYSICS_ITERATIONS sub-steps is at a pair whose swept
\* correction runs a binary search through all BINARY_STEPS steps
C20_Witness ==
    /\ iterations = MAX_PHYSICS_ITERATIONS
    /\ BINARY_STEPS \in SearchSteps

\* a binary search ends early, on the width of its bracket
C20_WitnessConverged == \E n \in SearchSteps : n >= 1 /\ n < BINARY_STEPS

\* the removal loop is about to erase bodies
C20_WitnessRemoval ==
    /\ pc = "gc" /\ ~ recording
    /\ Len(RemoveObjects(objects, selectedBody, draggedBody).objects) < Len(objects) - 1

-----------------------------------------------------------------------------
(* Faults of a tick (checked under SpecStep) *)

\* the denominators ResolveWithRotationAndFriction divides by for the pair the
\* loop of Update stands at: along the normal (PASS 1) and along the tangent
\* (PASS 2), which is perpendicular to the normal
SolverDenoms ==
    IF pc # "solve" \/ pairIdx > Len(pairs) THEN {}
    ELSE IF IsTrigger(objects[pairs[pairIdx][1]]) \/ IsTrigger(objects[pairs[pairIdx][2]])
    THEN {}
    ELSE Only({
         IF ~ hit.result THEN {}
         ELSE Only({
              Only({
                  IF contacts.contactCount = 0 THEN {}
                  ELSE { ImpulseDenom(sep[1], sep[2],
                                      VSub(contacts.contact1, sep[1].pos),
                                      VSub(contacts.contact1, sep[2].pos), axis)
                         : axis \in {hit.normal, Perp(hit.normal)} }
                  : contacts \in {FindContactPoints(sep[1], sep[2])}})
                  : sep \in {SeparateBodies(objects[pairs[pairIdx][1]],
                                            objects[pairs[pairIdx][2]],
                                            VScale(hit.normal, hit.depth))}})
         : hit \in {Collide(objects[pairs[pairIdx][1]], objects[pairs[pairIdx][2]])}})

\* C21: no division of World::Update faults.  Of every pair in the list the
\* solver loop runs over, at least one body has a non-zero inverse mass, and
\* the denominators of the normal and of the friction impulse are strictly
\* positive; no Vec2 division throws (Update never ends in an exception),
\* whatever the bodies and for deltaMs = 0 as well as deltaMs > 0.
C21_NoFaults ==
    /\ pc # "thrown"
    /\ pc = "solve" =>
          \A k \in 1..Len(pairs) :
              InvMass(objects[pairs[k][1]]) + InvMass(objects[pairs[k][2]]) > 0
    /\ \A denom \in SolverDenoms : denom > 0
    /\ pc = "integrate" /\ bodyIdx <= Len(objects) => ~ UpdateThrows(objects[bodyIdx])
    /\ pc = "finalize" => ~ FinalizeThrows(deltaMs)

\* a tick with deltaMs = 0 in which the solver has resolved a collision has
\* run FinalizeForces on every body
C21_Witness ==
    /\ pc = "finalize"
    /\ deltaMs = 0
    /\ bodyIdx > Len(objects)
    /\ aux.hits # {}

\* the solver is at a colliding pair of two Dynamic bodies of different mass
C21_WitnessDenoms ==
    /\ SolverDenoms # {}
    /\ objects[pairs[pairIdx][1]].bodyType = "Dynamic"
    /\ objects[pairs[pairIdx][2]].bodyType = "Dynamic"
    /\ objects[pairs[pairIdx][1]].mass # objects[pairs[pairIdx][2]].mass

\* FinalizeForces divides the accumulated impulse of a collision by dtSeconds
C21_WitnessDivides ==
    /\ pc = "finalize"
    /\ deltaMs > 0
    /\ \E k \in 1..Len(objects) : k < bodyIdx /\ objects[k].normalForce # VZero
-----------------------------------------------------------------------------
(* Specification SpecRecorder: a Recorder whose MAX_ENTRIES is RecCapacity  *)
(* is driven by Record, Rewind, TruncateAfter and Clear in any order.  The  *)
(* snapshots recorded are pairwise different, so that each entry of the      *)
(* history tells which call of Record it comes from.                        *)

\* MAX_ENTRIES of the Recorder of this specification
RecCapacity == 3

\* at most this many snapshots are recorded
MaxRecords == 6

\* the snapshot passed to the n-th call of Record (n from 0): one ball that
\* has moved n px
RecSnapshot(n) == CaptureSnapshot(<< StepBall(1, n * Scale, 0, 0, 0, 2000) >>)

\* which call of Record a snapshot was passed to
RecOrdinal(s) == s[1].pos.x \div Scale

\* the observations: the call made last, history and out before it, the
\* snapshot it was given, its return value, all snapshots recorded so far,
\* and for a run of successive Rewind calls the history at its start and the
\* snapshots returned
RecObs(op, given, result, log, atStart, rewound) ==
    [op |-> op, before |-> history, outBefore |-> snap, given |-> given,
     result |-> result, log |-> log, atStart |-> atStart, rewound |-> rewound]

InitRecorder ==
    /\ objects = << >>
    /\ pairs = << >>
    /\ IdleFrame
    /\ aux = [op |-> "none", before |-> << >>, outBefore |-> << >>, given |-> << >>,
              result |-> FALSE, log |-> << >>, atStart |-> << >>, rewound |-> << >>]

recorderFrame == <<objects, pairs, recording, selectedBody, draggedBody, pc, deltaMs,
                   requested, iterations, currIteration, pairIdx, prevPositions,
                   integratedPositions, bodyIdx, paused, rewinding, scrubIndex,
                   timeScale, stepOneFrame, recordInterval, recordFrameCounter,
                   spawnNudgeFrames>>

\* recorder.Record(current, simTimeMs)
RecRecord ==
    /\ Len(aux.log) < MaxRecords
    /\ \E current \in {RecSnapshot(Len(aux.log))} :
          /\ history' = RecordWithin(RecCapacity, history, current)
          /\ aux' = RecObs("record", current, TRUE, Append(aux.log, current),
                           << >>, << >>)
    /\ UNCHANGED <<snap, recorderFrame>>

\* recorder.Rewind(snap)
RecRewind ==
    /\ \E r \in {Rewind(history, snap)} :
          /\ history' = r.history
          /\ snap' = r.out
          /\ aux' = RecObs("rewind", << >>, r.result, aux.log,
                           IF aux.op = "rewind" THEN aux.atStart ELSE history,
                           IF ~ r.result THEN << >>
                           ELSE IF aux.op = "rewind" THEN Append(aux.rewound, r.out)
                           ELSE << r.out >>)
    /\ UNCHANGED recorderFrame

\* recorder.TruncateAfter(index)
RecTruncate ==
    /\ \E index \in 0..RecCapacity :
          /\ history' = TruncateAfter(history, index)
          /\ aux' = RecObs("truncate", << >>, TRUE, aux.log, << >>, << >>)
    /\ UNCHANGED <<snap, recorderFrame>>

\* recorder.Clear()
RecClear ==
    /\ history' = Clear(history)
    /\ aux' = RecObs("clear", << >>, TRUE, aux.log, << >>, << >>)
    /\ UNCHANGED <<snap, recorderFrame>>

NextRecorder == RecRecord \/ RecRewind \/ RecTruncate \/ RecClear

SpecRecorder == InitRecorder /\ [][NextRecorder]_vars

-----------------------------------------------------------------------------
(* Properties of the Recorder (checked under SpecRecorder) *)

\* C22: HistorySize() never exceeds MAX_ENTRIES, whatever Record, Rewind,
\* TruncateAfter and Clear calls were made; a Record on a full history leaves
\* it full, with the new snapshot as the newest entry and the entries but the
\* oldest moved down one place in their order.
C22_SlidingWindow ==
    /\ Len(history) <= RecCapacity
    /\ (aux.op = "record" /\ Len(aux.before) >= RecCapacity) =>
          /\ Len(history) = Len(aux.before)
          /\ history[Len(history)] = aux.given
          /\ \A i \in 1..(Len(history) - 1) : history[i] = aux.before[i + 1]
          /\ aux.before[1] \notin Range(history)

\* a Record on a full history whose oldest entry was not the first snapshot
\* ever recorded (the window has slid before)
C22_Witness ==
    /\ aux.op = "record"
    /\ Len(aux.before) = RecCapacity
    /\ RecOrdinal(aux.before[1]) > 0
    /\ Len(history) = RecCapacity

\* a Record on a full history that Rewind and TruncateAfter had shortened
\* and later calls of Record filled again
C22_WitnessRefilled ==
    /\ aux.op = "record"
    /\ Len(aux.before) = RecCapacity
    /\ \E i \in 1..(Len(aux.before) - 1) :
           RecOrdinal(aux.before[i + 1]) > RecOrdinal(aux.before[i]) + 1

\* the reverse of a sequence
Reversed(seq) == [i \in 1..Len(seq) |-> seq[Len(seq) + 1 - i]]

\* C23: the entries of the history are snapshots as they were passed to
\* Record, in the order of recording; a run of successive Rewind calls returns
\* the newest entries, newest first, and takes each out of the history as it
\* is returned; Rewind on an empty history returns false and leaves out and
\* the history as they were.
C23_RewindOrder ==
    /\ \A i \in 1..Len(history) :
          /\ RecOrdinal(history[i]) < Len(aux.log)
          /\ history[i] = aux.log[RecOrdinal(history[i]) + 1]
          /\ i > 1 => RecOrdinal(history[i - 1]) < RecOrdinal(history[i])
    /\ (aux.op = "rewind" /\ aux.result) =>
          /\ snap = aux.before[Len(aux.before)]
          /\ history = SubSeq(aux.before, 1, Len(aux.before) - 1)
          /\ Len(aux.rewound) <= Len(aux.atStart)
          /\ aux.atStart = history \o Reversed(aux.rewound)
    /\ (aux.op = "rewind" /\ ~ aux.result) =>
          /\ aux.before = << >>
          /\ history = << >>
          /\ snap = aux.outBefore

\* three successive Rewind calls have emptied a history that had slid
C23_Witness ==
    /\ aux.op = "rewind"
    /\ aux.result
    /\ Len(aux.rewound) = RecCapacity
    /\ RecOrdinal(aux.atStart[1]) > 0
    /\ history = << >>

\* Rewind on an empty history, after an earlier Rewind had filled out
C23_WitnessEmpty ==
    /\ aux.op = "rewind"
    /\ ~ aux.result
    /\ aux.outBefore # << >>
-----------------------------------------------------------------------------
(* Alignment of the recorded snapshots with the body list (checked under    *)
(* SpecHost)                                                                *)

\* entry i of a snapshot captured from the bodies captured (their ids, in
\* order) describes the body that is at index i of the list now
AlignedWith(captured, bodies) ==
    /\ Len(captured) <= Len(bodies)
    /\ \A i \in 1..Len(captured) : captured[i] = bodies[i].id

\* C24 as stated: in every state every snapshot of the history is aligned
\* with the body list, entry i describing the body now at index i, so that a
\* restore applies every tuple to the body it was captured from.
C24_AsStated ==
    /\ Len(aux.owners) = Len(history)
    /\ \A k \in 1..Len(history) :
          /\ Len(aux.owners[k]) = Len(history[k])
          /\ AlignedWith(aux.owners[k], objects)

\* the alignment the code does keep: as long as the Remove Body button has
\* removed no body, every snapshot of the history is aligned with the body
\* list (CheckSpawning clears the history, CheckCannon adds at the end of the
\* list, and a tick removes bodies only while nothing is recorded)
C24_AlignedUntilRemove ==
    aux.removals = 0 =>
        \A k \in 1..Len(history) : AlignedWith(aux.owners[k], objects)

\* a rewind or scrub frame has restored a snapshot whose first entry was
\* captured from a body other than the one now first in the list
C24_Witness ==
    /\ aux.restored
    /\ aux.applied # << >>
    /\ objects # << >>
    /\ aux.applied[1] # objects[1].id

\* the history holds snapshots taken before CheckCannon added a body
C24_WitnessFired ==
    /\ aux.lastOp = "fire"
    /\ history # << >>
    /\ Len(history[1]) < Len(objects)

-----------------------------------------------------------------------------
(* The swept correction and pairs without a collision (checked under        *)
(* SpecStep)                                                                *)

\* C25: within a sub-step, when ResolveIfColliding finds no collision for a
\* pair, handling that pair leaves the positions and the velocities of both
\* bodies unchanged, whatever happened to them in an earlier pair of the
\* same sub-step
C25_QuietPairUntouched ==
    (pc = "solve" /\ aux.lastOp = "solve" /\ ~ aux.collided) => aux.moved = {}

\* a pair without a collision was handled and changed one of its bodies
C25_Witness ==
    /\ pc = "solve" /\ aux.lastOp = "solve"
    /\ ~ aux.collided
    /\ aux.moved # {}

\* a pair without a collision changes a body only if an earlier pair of the
\* same sub-step contained that body
C25_MovedOnlyAfterEarlierPair ==
    (pc = "solve" /\ aux.lastOp = "solve" /\ ~ aux.collided)
        => \A id \in aux.moved :
              /\ id \in aux.swept
              /\ \E j \in 1..(pairIdx - 2) :
                    id \in {objects[pairs[j][1]].id, objects[pairs[j][2]].id}


-----------------------------------------------------------------------------
(* Triggers and cannons in the pair loop (checked under SpecStep)           *)

NonSolid(b) == b.kind \in {"Trigger", "Cannon", "Canon"}

\* the pair the last UpdateSolve step handled
HandledPair == pairs[pairIdx - 1]

PairHandled == pc = "solve" /\ aux.lastOp = "solve" /\ pairIdx >= 2

\* C26: handling a pair that contains a Trigger or a Cannon finds no
\* collision and changes neither body's position or velocity
C26_NonSolidUntouched ==
    (PairHandled /\ (NonSolid(objects[HandledPair[1]]) \/ NonSolid(objects[HandledPair[2]])))
        => /\ ~ aux.collided
           /\ aux.moved = {}

\* the handled pair contains a cannon and one of its bodies changed
C26_Witness ==
    /\ PairHandled
    /\ \E k \in {HandledPair[1], HandledPair[2]} : objects[k].kind = "Cannon"
    /\ aux.moved # {}

\* a pair that contains a Trigger is skipped: no collision, no swept
\* correction, no change; a pair that contains a Cannon never collides
C26_SkippedOrNoHit ==
    PairHandled =>
        /\ (IsTrigger(objects[HandledPair[1]]) \/ IsTrigger(objects[HandledPair[2]]))
              => (~ aux.collided /\ aux.swept = {} /\ aux.moved = {})
        /\ (NonSolid(objects[HandledPair[1]]) \/ NonSolid(objects[HandledPair[2]]))
              => ~ aux.collided

\* a pair of a ball and a trigger it overlaps was handled
C26_WitnessTrigger ==
    /\ PairHandled
    /\ \E k \in {HandledPair[1], HandledPair[2]} : IsTrigger(objects[k])
    /\ Collide(objects[HandledPair[1]], objects[HandledPair[2]]).result


-----------------------------------------------------------------------------
(* Specification SpecTrigger: worlds with a trigger are stepped tick after  *)
(* tick while the user may press PAUSE / PLAY between two ticks.            *)

\* at most this many ticks are run on a scene with a trigger
MaxTriggerTicks == 3

\* a ball of radius 1 px at 900 px/s (15 px per 60 Hz tick)
FastBall(id, x) == StepBall(id, x, 0, 90000, 0, 100)

\* a pausing trigger 20 px wide crossed by two fast balls, one a tick after
\* the other has left it
SceneTriggerCrossed ==
    << StepTrigger(1, 0, 0, 2000, 2000, "PauseSimulation"),
       FastBall(2, -1500), FastBall(3, -4500) >>

\* a ball at rest inside a pausing trigger
SceneTriggerInside ==
    << StepTrigger(1, 0, 0, 10000, 10000, "PauseSimulation"),
       StepBall(2, 0, 0, 0, 0, 2000) >>

\* a ball entering a trigger that does nothing
SceneTriggerQuiet ==
    << StepTrigger(1, 0, 0, 10000, 10000, "DoNothing"),
       StepBall(2, -7500, 0, 60000, 0, 2000) >>

\* a pausing trigger that overlaps a floor, crossed by a fast ball
SceneTriggerOnFloor ==
    << StepTrigger(1, 0, 0, 2000, 2000, "PauseSimulation"),
       StepBox(2, 0, -1000, 40000, 1000), FastBall(3, -1500) >>

TriggerScenes ==
    { SceneTrigger, SceneTriggerCrossed, SceneTriggerInside, SceneTriggerQuiet,
      SceneTriggerOnFloor }

InitTrigger ==
    /\ objects \in TriggerScenes
    /\ recording = FALSE
    /\ selectedBody = 0
    /\ draggedBody = 0
    /\ pairs = << >>
    /\ pc = "idle"
    /\ deltaMs = 0
    /\ requested = 0
    /\ iterations = 0
    /\ currIteration = 0
    /\ pairIdx = 0
    /\ bodyIdx = 0
    /\ prevPositions = << >>
    /\ integratedPositions = << >>
    /\ snap = << >>
    /\ paused = FALSE
    /\ TimeIdle
    /\ aux = [TickStart(<< >>, 0) EXCEPT !.lastOp = "none"]

NextTrigger ==
    \/ UpdateEnterWithin(MaxTriggerTicks)
    \/ UpdateBeginForces
    \/ UpdateSubStep
    \/ UpdateIntegrate
    \/ UpdateBuildPairs
    \/ UpdateSolve
    \/ UpdateTriggers
    \/ UpdateFinalize
    \/ UpdateRemove
    \/ HostPause

SpecTrigger == InitTrigger /\ [][NextTrigger]_vars

\* UpdateTriggerCollisions has run in the tick under way or just finished
TriggersChecked == aux.lastOp \in {"triggers", "finalize", "gc"}

\* C27: a PauseSimulation trigger sets paused exactly in a tick in which it
\* overlaps another body and overlapped none when the previous tick checked
\* it; a tick in which no trigger is newly entered leaves paused as the user
\* set it
C27_FiresOnEntryOnly ==
    TriggersChecked =>
        /\ aux.fired <=> (aux.overlapped \ aux.before # {})
        /\ pc # "idle" => (paused <=> (aux.wasPaused \/ aux.fired))

\* the user has unpaused, and the next tick found the trigger still
\* overlapped and left paused off
C27_Witness ==
    /\ TriggersChecked
    /\ aux.ticks >= 1
    /\ aux.overlapped # {}
    /\ aux.overlapped \subseteq aux.before
    /\ ~ aux.wasPaused
    /\ ~ paused

\* a trigger every body had left a tick earlier is entered again and pauses
C27_WitnessReentered ==
    /\ TriggersChecked
    /\ aux.ticks = 2
    /\ aux.before = {}
    /\ aux.fired
    /\ paused
    /\ \E i \in 1..Len(objects) :
          IsBall(objects[i]) /\ objects[i].pos.x > 1100


-----------------------------------------------------------------------------
(* The grid broad phase against the all-pairs one (checked under SpecPairs) *)

NoCanon == \A i \in 1..Len(objects) : Collidable(objects[i])

BothBuilt == aux.built /\ aux.allBuilt

\* C28: on a body list without cannon-type bodies the grid BuildPairs and
\* the all-pairs BuildPairs produce the same set of pairs (i, j), i < j, and
\* neither lists a pair twice
C28_SamePairs ==
    (BothBuilt /\ NoCanon) =>
        /\ Range(pairs) = Range(aux.all)
        /\ Len(pairs) = Len(aux.all)
        /\ Cardinality(Range(aux.all)) = Len(aux.all)
        /\ \A p \in Range(aux.all) : p[1] < p[2]

\* three bodies without a cannon: a pair both versions emit, two Static
\* bodies whose boxes overlap, and two bodies of one cell that do not overlap
C28_Witness ==
    /\ BothBuilt /\ NoCanon
    /\ Len(objects) = 3
    /\ aux.all # << >>
    /\ \E i, j \in 1..Len(objects) :
          /\ i < j /\ BothStatic(objects[i], objects[j])
          /\ Overlap(BoxOfBody(i), BoxOfBody(j))
    /\ \E i, j \in 1..Len(objects) :
          /\ i < j /\ ~ BothStatic(objects[i], objects[j])
          /\ CoveredCells(BoxOfBody(i)) \cap CoveredCells(BoxOfBody(j)) /= {}
          /\ ~ Overlap(BoxOfBody(i), BoxOfBody(j))

\* with a cannon-type body in the list the two versions differ
C28_WitnessCanon ==
    /\ BothBuilt /\ ~ NoCanon
    /\ Range(pairs) # Range(aux.all)


-----------------------------------------------------------------------------
(* Specification SpecIncline: inclines are spawned and the two friction     *)
(* sliders of the incline inspector are moved, in any order.                *)

\* math::Clamp
Clamp(value, min, max) ==
    IF value < min THEN min ELSE IF value > max THEN max ELSE value

\* a variant: the kinetic coefficient is clamped and not capped
SetKineticFrictionUncapped(b, mu_k) ==
    [b EXCEPT !.kineticFriction = Clamp(mu_k, 0, 2 * Scale)]

\* Incline::SetStaticFriction
SetStaticFriction(b, mu_s) ==
    [b EXCEPT !.staticFriction = Clamp(mu_s, 0, 2 * Scale)]

\* Incline::SetKineticFriction
SetKineticFriction(b, mu_k) ==
    Only({
        [b EXCEPT !.kineticFriction = IF clamped > b.staticFriction
                                      THEN b.staticFriction ELSE clamped]
        : clamped \in {Clamp(mu_k, 0, 2 * Scale)}})

\* at most this many inclines in the world of SpecIncline
MaxInclines == 1

\* the coefficients of a spawn request (the drag fields run from 0 to 2) and
\* of the default scene, in hundredths
SpawnFrictions == {0, 10, 50, 70, 100, 2 * Scale}

\* the values a caller passes to the setters, in hundredths
GivenFrictions == {-50, 0, 30, 70, 2 * Scale, 250}

InclineObs(op, body, given, before) ==
    [op |-> op, body |-> body, given |-> given, before |-> before]

InitIncline ==
    /\ objects = << >>
    /\ pairs = << >>
    /\ aux = InclineObs("none", 0, 0, << >>)
    /\ IdleFrame

\* Engine::CheckSpawning for an incline: the constructor takes both
\* coefficients as they are
InclineSpawn ==
    /\ Len(objects) < MaxInclines
    /\ \E s \in SpawnFrictions, k \in SpawnFrictions :
          objects' = Add(objects, Incline(NewId(objects), VZero, 600 * Scale,
                                          200 * Scale, FALSE, s, k))
    /\ aux' = InclineObs("spawn", Len(objects'), 0, objects)
    /\ UNCHANGED <<pairs, frameVars>>

\* the static friction slider of the inspector
InclineSetStatic ==
    /\ \E i \in 1..Len(objects), mu_s \in GivenFrictions :
          /\ objects' = [objects EXCEPT ![i] = SetStaticFriction(@, mu_s)]
          /\ aux' = InclineObs("static", i, mu_s, objects)
    /\ UNCHANGED <<pairs, frameVars>>

\* the kinetic friction slider of the inspector
InclineSetKinetic ==
    /\ \E i \in 1..Len(objects), mu_k \in GivenFrictions :
          /\ objects' = [objects EXCEPT ![i] = SetKineticFriction(@, mu_k)]
          /\ aux' = InclineObs("kinetic", i, mu_k, objects)
    /\ UNCHANGED <<pairs, frameVars>>

NextIncline == InclineSpawn \/ InclineSetStatic \/ InclineSetKinetic

SpecIncline == InitIncline /\ [][NextIncline]_vars

InRange(mu) == 0 <= mu /\ mu <= 2 * Scale

Ordered(b) == b.kineticFriction <= b.staticFriction

C29_WitnessCapped ==
    /\ aux.op = "kinetic"
    /\ InRange(aux.given)
    /\ aux.given > objects[aux.body].staticFriction
    /\ objects[aux.body].kineticFriction = objects[aux.body].staticFriction


-----------------------------------------------------------------------------
(* The host's handles (checked under SpecHost)                              *)

\* C30: selectedBody and draggedBody are each null or refer to a body that
\* is in the world's body list
C30_NoDanglingHandles ==
    /\ ~ Dangling(selectedBody, objects)
    /\ ~ Dangling(draggedBody, objects)

\* the Remove Body button has erased the selected body and selectedBody
\* still refers to it
C30_Witness ==
    /\ aux.lastOp = "remove"
    /\ Dangling(selectedBody, objects)

\* as long as Remove Body has not been pressed no handle dangles
C30_ValidUntilRemove ==
    aux.removals = 0 => C30_NoDanglingHandles

\* the garbage collection has erased the selected body and set the handle
\* to null
C30_WitnessCollected ==
    /\ aux.lastOp = "gc"
    /\ aux.removals = 0
    /\ Dangling(aux.preHandles[1], objects)
    /\ selectedBody = 0

\* the inspector has read through the dangling handle
C30_WitnessInspected == pc = "crashed"

=============================================================================
